---- MODULE Spec2Model ----
(***************************************************************************)
(* A model of solang's contract resolution (src/sema/contracts.rs): the    *)
(* base-contract graph (resolve_base_contracts, is_base), the linearization *)
(* (visit_bases) and the layout and override resolution (layout_contract). *)
(*                                                                         *)
(* The namespace `ns` is the state.  Contracts and functions are addressed *)
(* by number, as in the arenas ns.contracts and ns.functions.              *)
(***************************************************************************)
EXTENDS Integers, Sequences, FiniteSets, TLC

VARIABLES
    ty,                 \* ns.contracts[c].ty
    bases,              \* ns.contracts[c].bases : sequence of Base
    decls,              \* the base declarations (def.base entries) processed so far
    diagnostics,        \* ns.diagnostics
    pc,                 \* the position of the program
    cur,                \* resolve_base_contracts: index of the contract being processed
    order,              \* the result of the last call of visit_bases
    target,             \* ns.target
    variables,          \* ns.contracts[c].variables
    functions,          \* ns.functions (flat, tagged with contract_no)
    layout,             \* ns.contracts[c].layout
    fixed_layout_size,  \* ns.contracts[c].fixed_layout_size
    dynamic_storage,    \* ns.contracts[c].dynamic_storage
    all_functions,      \* ns.contracts[c].all_functions (the keys; every value is usize::MAX)
    virtual_functions,  \* ns.contracts[c].virtual_functions : signature -> function_no
    body_no,            \* resolve_bodies: the number of bodies attempted
    broken,             \* resolve_bodies: the local `broken`
    call                \* the frames of a recursive function that is running

vars == <<ty, bases, decls, diagnostics, pc, cur, order, target, variables,
          functions, layout, fixed_layout_size, dynamic_storage, all_functions,
          virtual_functions, body_no, broken, call>>

\* what the declarations fix, and what layout_contract writes
declared == <<ty, target, variables, functions>>
laid_out == <<layout, fixed_layout_size, dynamic_storage, all_functions,
              virtual_functions>>
bodies == <<body_no, broken>>

-----------------------------------------------------------------------------
(* Bounds *)

\* SpecVisit: the number of contracts of the base graphs visit_bases is applied to
VisitContracts == 4
\* SpecResolve: the number of contracts of the file
ResolveContracts == 3
\* SpecResolve: the number of base declarations processed in all
MaxDecls == 3
\* SpecLayout: the number of variables declared in all
MaxVars == 3

-----------------------------------------------------------------------------
(* Helpers *)

Range(s) == {s[i] : i \in 1..Len(s)}

\* The sequences without repetition over S, of every length
OrderedSubsets(S) ==
    UNION {{f \in [1..k -> S] : \A i, j \in 1..k : i # j => f[i] # f[j]} :
           k \in 0..Cardinality(S)}

\* The contracts of the namespace
Contracts == DOMAIN ty

\* Option<(usize, Vec<Expression>)>: the empty sequence is None
None == <<>>

\* ast::Base
Base(no) == [contract_no |-> no, constructor |-> None]

\* No recursive function is running
NoCall == [stack |-> <<>>]

\* The contract numbers of a list of Base
BaseNos(c) == {bases[c][i].contract_no : i \in 1..Len(bases[c])}

\* The contracts reachable from c through `bases` in one or more steps
RECURSIVE ReachN(_, _)
ReachN(S, n) ==
    IF n = 0 THEN S
    ELSE ReachN(S \cup UNION {BaseNos(x) : x \in S}, n - 1)

TransitiveBases(c) == ReachN(BaseNos(c), Cardinality(Contracts))

Acyclic == \A c \in Contracts : c \notin TransitiveBases(c)

-----------------------------------------------------------------------------
(* Contract kinds: ast::Contract::is_library, is_interface, is_concrete *)

is_library(c) == ty[c] = "library"
is_interface(c) == ty[c] = "interface"
is_concrete(c) == ty[c] = "contract"

-----------------------------------------------------------------------------
(* is_base: is `base` the contract `parent` or one of its transitive bases *)

RECURSIVE is_base(_, _)

\* is_base without the descent into the bases of the bases
is_base_direct(base, parent) ==
    base = parent \/ \E i \in 1..Len(bases[parent]) : bases[parent][i].contract_no = base

is_base(base, parent) ==
    IF base = parent \/ \E i \in 1..Len(bases[parent]) : bases[parent][i].contract_no = base
    THEN TRUE
    ELSE \E i \in 1..Len(bases[parent]) : is_base(base, bases[parent][i].contract_no)

-----------------------------------------------------------------------------
(* visit_bases: base contracts in depth-first post-order *)

RECURSIVE base_visit(_, _), base_visit_rev(_, _, _)

\* the loop over the bases in declaration order, `bases.iter()` without rev()
RECURSIVE base_visit_in_order(_, _, _)
base_visit_in_order(bs, i, ord) ==
    IF i = 0 THEN ord
    ELSE base_visit_in_order(bs, i - 1, base_visit(bs[Len(bs) + 1 - i].contract_no, ord))

\* the loop `for b in bases.iter().rev()` from position i down to 1
base_visit_rev(bs, i, ord) ==
    IF i = 0 THEN ord
    ELSE base_visit_rev(bs, i - 1, base_visit(bs[i].contract_no, ord))

\* base() without the test `!order.contains(&contract_no)`
base_visit_push_always(contract_no, ord) ==
    Append(base_visit_rev(bases[contract_no], Len(bases[contract_no]), ord), contract_no)

\* base() pushing the contract before it visits the bases
base_visit_pre_order(contract_no, ord) ==
    base_visit_rev(bases[contract_no], Len(bases[contract_no]),
                   IF contract_no \in Range(ord) THEN ord ELSE Append(ord, contract_no))

\* the inner fn base(contract_no, order, ns)
base_visit(contract_no, ord) ==
    LET o == base_visit_rev(bases[contract_no], Len(bases[contract_no]), ord)
    IN  IF contract_no \in Range(o) THEN o ELSE Append(o, contract_no)

visit_bases(contract_no) == base_visit(contract_no, <<>>)

-----------------------------------------------------------------------------
(* Diagnostics.  ast::Diagnostic carries a level, a location, a message and *)
(* notes; the message is modelled by its kind (the format string) and the   *)
(* values formatted into it, each a sequence of numbers.                    *)

\* a location: what it is the location of, and the numbers that identify it
Loc(of, no) == [of |-> of, no |-> no]

Note(pos, kind, args) == [pos |-> pos, kind |-> kind, args |-> args]

\* ast::Diagnostic::error, error_with_note, error_with_notes
Error(loc, kind, args, notes) ==
    [level |-> "error", loc |-> loc, kind |-> kind, args |-> args, notes |-> notes]

-----------------------------------------------------------------------------
(* resolve_base_contracts.  A declared base is a name; the names are the    *)
(* contract numbers and one more that no contract has.                      *)

Names == Contracts \cup {Cardinality(Contracts)}

\* ns.resolve_contract(file_no, name): Some(no) or None
resolve_contract(name) == IF name \in Contracts THEN <<name>> ELSE None

\* A rejection that reports nothing
RejectSilently(loc, kind, args) == [base |-> <<>>, diag |-> <<>>]

\* A rejected declaration: ns.diagnostics.push(Diagnostic::error(..)), no Base
Reject(loc, kind, args) ==
    [base |-> <<>>, diag |-> <<Error(loc, kind, args, <<>>)>>]

\* resolve_base without the branch that rejects a library as a base
resolve_base_library_allowed(contract_no, name, loc) ==
    LET found == resolve_contract(name)
        no == found[1]
        reject(kind, args) == Reject(loc, kind, args)
    IN  IF is_library(contract_no)
        THEN reject("library cannot have a base contract", << <<contract_no>> >>)
        ELSE IF found = None
        THEN reject("contract not found", << <<name>> >>)
        ELSE IF no = contract_no
        THEN reject("contract cannot have itself as a base contract", << <<name>> >>)
        ELSE IF \E i \in 1..Len(bases[contract_no]) :
                    bases[contract_no][i].contract_no = no
        THEN reject("duplicate base", << <<contract_no>>, <<name>> >>)
        ELSE IF is_base(contract_no, no)
        THEN reject("base is cyclic", << <<name>>, <<contract_no>> >>)
        ELSE IF is_interface(contract_no) /\ ~is_interface(no)
        THEN reject("interface cannot have as a base", << <<contract_no>>, <<name>> >>)
        ELSE [base |-> <<Base(no)>>, diag |-> <<>>]

\* The body of the loop over def.base, for the declaration `name` of contract
\* contract_no at location loc: the Base pushed and the diagnostic pushed.
resolve_base(contract_no, name, loc) ==
    LET found == resolve_contract(name)
        no == found[1]
        reject(kind, args) == Reject(loc, kind, args)
    IN  IF is_library(contract_no)
        THEN reject("library cannot have a base contract", << <<contract_no>> >>)
        ELSE IF found = None
        THEN reject("contract not found", << <<name>> >>)
        ELSE IF no = contract_no
        THEN reject("contract cannot have itself as a base contract", << <<name>> >>)
        ELSE IF \E i \in 1..Len(bases[contract_no]) :
                    bases[contract_no][i].contract_no = no
        THEN reject("duplicate base", << <<contract_no>>, <<name>> >>)
        ELSE IF is_base(contract_no, no)
        THEN reject("base is cyclic", << <<name>>, <<contract_no>> >>)
        ELSE IF is_interface(contract_no) /\ ~is_interface(no)
        THEN reject("interface cannot have as a base", << <<contract_no>>, <<name>> >>)
        ELSE IF is_library(no)
        THEN reject("library cannot be used as base contract", << <<name>>, <<contract_no>> >>)
        ELSE [base |-> <<Base(no)>>, diag |-> <<>>]

\* One iteration of `for base in &def.base` for the contract at position cur;
\* the declaration is pt::Base {name, args}, and args is not looked at here
ResolveBaseDeclaration(name, args) ==
    /\ pc = "resolve_base_contracts"
    /\ cur \in Contracts
    /\ Len(decls) < MaxDecls
    /\ LET r == resolve_base(cur, name, Loc("base", <<Len(decls) + 1>>))
       IN  /\ bases' = [bases EXCEPT ![cur] = @ \o r.base]
           /\ diagnostics' = diagnostics \o r.diag
    /\ decls' = Append(decls, [contract_no |-> cur, name |-> name, args |-> args])
    /\ UNCHANGED <<pc, cur, order, declared, laid_out, bodies, call>>

\* The iteration for a declaration without arguments
ResolveBase(name) == ResolveBaseDeclaration(name, None)

\* The end of def.base: `for (contract_no, def) in contracts` moves on, and
\* resolve_base_contracts returns after the last contract
NextContract ==
    /\ pc = "resolve_base_contracts"
    /\ cur \in Contracts
    /\ cur' = cur + 1
    /\ pc' = IF cur + 1 \in Contracts THEN pc ELSE "resolved"
    /\ UNCHANGED <<bases, decls, diagnostics, order, declared, laid_out, bodies, call>>

-----------------------------------------------------------------------------
(* Maps (HashMap) and their iteration.  A HashMap is iterated in an order   *)
(* the program does not fix: `h` holds, for each kind of key, one order of  *)
(* all keys, and a map is iterated in that order.                           *)

EmptyMap == [x \in {} |-> 0]

MapPut(m, k, v) == [x \in DOMAIN m \cup {k} |-> IF x = k THEN v ELSE m[x]]

MapRemove(m, k) == [x \in DOMAIN m \ {k} |-> m[x]]

\* the keys S in the order perm
InOrder(S, perm) == SelectSeq(perm, LAMBDA x : x \in S)

\* all orders of the set S
Perms(S) == {f \in [1..Cardinality(S) -> S] : \A i, j \in DOMAIN f : i # j => f[i] # f[j]}

FunctionNos == 1..Len(functions)

Signatures == {functions[f].signature : f \in FunctionNos}

SymbolNames ==
    {functions[f].name : f \in FunctionNos}
        \cup UNION {{variables[c][v].name : v \in 1..Len(variables[c])} : c \in Contracts}

HashOrders == [fo : Perms(FunctionNos), so : Perms(Signatures), no : Perms(SymbolNames)]

-----------------------------------------------------------------------------
(* Types: Type::align_of, Type::storage_slots and Type::is_dynamic, for a   *)
(* one-byte type, an eight-byte type and a string.  On Solana a footprint   *)
(* is a number of bytes, elsewhere a number of slots.                       *)

SOLANA_FIRST_OFFSET == 16

align_of(t) ==
    CASE t = "bool" -> 1
      [] t = "uint64" -> 8
      [] t = "string" -> 4

storage_slots(t) ==
    IF target = "Solana"
    THEN CASE t = "bool" -> 1
           [] t = "uint64" -> 8
           [] t = "string" -> 4
    ELSE 1

is_dynamic(t) == t = "string"

-----------------------------------------------------------------------------
(* Symbols.  ns.variable_symbols and ns.function_symbols hold, under the    *)
(* key (file, contract, name), the symbols the declarations of the contract *)
(* registered: one Symbol::Variable for each variable, and one              *)
(* Symbol::Function for each function name, listing the functions of that   *)
(* name.  Variables and functions are numbered from 1.                      *)

Symbol(kind, nos) == [kind |-> kind, nos |-> nos]

\* ns.contracts[c].functions: the functions declared in contract c
contract_functions(c) == SelectSeq([f \in FunctionNos |-> f],
                                   LAMBDA f : functions[f].contract_no = c)

variable_symbols(c) ==
    [name \in {variables[c][v].name : v \in 1..Len(variables[c])} |->
        Symbol("Variable",
               <<c, CHOOSE v \in 1..Len(variables[c]) : variables[c][v].name = name>>)]

function_symbols(c) ==
    [name \in {functions[f].name : f \in {g \in FunctionNos :
                    functions[g].contract_no = c /\ functions[g].ty = "function"}} |->
        Symbol("Function",
               SelectSeq(contract_functions(c),
                         LAMBDA f : functions[f].name = name /\ functions[f].ty = "function"))]

\* Symbol::has_accessor, Symbol::is_event, Symbol::is_private_variable, Symbol::loc
has_accessor(sym) ==
    CASE sym.kind = "Variable" -> variables[sym.nos[1]][sym.nos[2]].visibility = "public"
      [] sym.kind = "Function" -> \E i \in 1..Len(sym.nos) : functions[sym.nos[i]].is_accessor
      [] OTHER -> FALSE

is_event(sym) == sym.kind = "Event"

is_private_variable(sym) ==
    sym.kind = "Variable" /\ variables[sym.nos[1]][sym.nos[2]].visibility = "private"

symbol_loc(sym) ==
    IF sym.kind = "Function" THEN Loc("function", <<sym.nos[1]>>)
    ELSE Loc("variable", sym.nos)

-----------------------------------------------------------------------------
(* layout_contract.  `st` is the state of the walk: the diagnostics pushed, *)
(* the locals function_syms, variable_syms, override_needed and slot, and   *)
(* the fields of ns.contracts[contract_no] the walk writes.                 *)

\* merge_symbol without the test of line 361: a private variable is recorded
merge_symbol_private_recorded(st, name, sym) ==
    LET clash == /\ name \in DOMAIN st.variable_syms
                 /\ ~(has_accessor(st.variable_syms[name]) \/ has_accessor(sym))
    IN  [st EXCEPT
            !.diags = @ \o
                IF clash
                THEN <<Error(symbol_loc(sym), "already defined", <<sym.nos>>,
                             <<Note(symbol_loc(st.variable_syms[name]),
                                    "previous definition", <<>>)>>)>>
                ELSE <<>>,
            !.variable_syms = MapPut(@, name, sym)]

\* lines 333-367: one symbol of the contract being visited
merge_symbol(st, name, sym) ==
    LET done == /\ name \in DOMAIN st.function_syms
                /\ sym.kind = "Function"
        extended == IF done
                    THEN MapPut(st.function_syms, name,
                                Symbol("Function", st.function_syms[name].nos \o sym.nos))
                    ELSE st.function_syms
        clash == /\ ~done
                 /\ name \in DOMAIN st.variable_syms \cup DOMAIN extended
                 /\ LET prev == IF name \in DOMAIN st.variable_syms
                                THEN st.variable_syms[name] ELSE extended[name]
                    IN  ~(has_accessor(prev) \/ has_accessor(sym)
                            \/ (is_event(prev) /\ is_event(sym)))
        prev_loc == symbol_loc(IF name \in DOMAIN st.variable_syms
                               THEN st.variable_syms[name] ELSE extended[name])
        diag == IF clash
                THEN <<Error(symbol_loc(sym), "already defined", <<sym.nos>>,
                             <<Note(prev_loc, "previous definition", <<>>)>>)>>
                ELSE <<>>
    IN  [st EXCEPT
            !.diags = @ \o diag,
            !.function_syms =
                IF ~is_private_variable(sym) /\ sym.kind = "Function"
                THEN MapPut(extended, name, sym) ELSE extended,
            !.variable_syms =
                IF ~is_private_variable(sym) /\ sym.kind # "Function"
                THEN MapPut(@, name, sym) ELSE @]

\* lines 326-368: the symbols of the visited contract, map by map
RECURSIVE merge_symbols(_, _, _, _)
merge_symbols(st, syms, names, i) ==
    IF i > Len(names) THEN st
    ELSE merge_symbols(merge_symbol(st, names[i], syms[names[i]]), syms, names, i + 1)

\* layout_variable without lines 374-383: the slot is not aligned on Solana
layout_variable_unaligned(st, base_contract_no, var_no) ==
    LET var == variables[base_contract_no][var_no]
    IN  IF var.constant THEN st
        ELSE [st EXCEPT
                !.layout = Append(@, [slot |-> st.slot, contract_no |-> base_contract_no,
                                      var_no |-> var_no, ty |-> var.ty]),
                !.dynamic_storage = @ \/ is_dynamic(var.ty),
                !.slot = st.slot + storage_slots(var.ty)]

\* layout_variable without the test of line 371: constants are laid out too
layout_variable_constants_too(st, base_contract_no, var_no) ==
    LET var == variables[base_contract_no][var_no]
    IN  [st EXCEPT
            !.layout = Append(@, [slot |-> st.slot, contract_no |-> base_contract_no,
                                  var_no |-> var_no, ty |-> var.ty]),
            !.slot = st.slot + storage_slots(var.ty)]

\* lines 371-397: one variable of the visited contract
layout_variable(st, base_contract_no, var_no) ==
    LET var == variables[base_contract_no][var_no]
        alignment == align_of(var.ty)
        offset == st.slot % alignment
        slot == IF target = "Solana" /\ offset > 0
                THEN st.slot + (alignment - offset) ELSE st.slot
    IN  IF var.constant THEN st
        ELSE [st EXCEPT
                !.layout = Append(@, [slot |-> slot, contract_no |-> base_contract_no,
                                      var_no |-> var_no, ty |-> var.ty]),
                !.dynamic_storage = @ \/ is_dynamic(var.ty),
                !.slot = slot + storage_slots(var.ty)]

\* lines 370-398
RECURSIVE layout_variables(_, _, _)
layout_variables(st, base_contract_no, var_no) ==
    IF var_no > Len(variables[base_contract_no]) THEN st
    ELSE layout_variables(layout_variable(st, base_contract_no, var_no),
                          base_contract_no, var_no + 1)

FuncLoc(function_no) == Loc("function", <<function_no>>)

\* the location of the `override` attribute of a function
OverrideLoc(function_no) == Loc("override", <<function_no>>)

\* a set of numbers as an ascending sequence
RECURSIVE Sorted(_)
Sorted(S) ==
    IF S = {} THEN <<>>
    ELSE LET m == CHOOSE x \in S : \A y \in S : x <= y IN <<m>> \o Sorted(S \ {m})

\* is_override: None, or Some((loc, list)) as <<the set of the list>>
Some(x) == <<x>>

\* record_function with line 658 testing is_virtual alone
record_function_virtual_only(st, function_no) ==
    LET cur_fn == functions[function_no]
    IN  [st EXCEPT
            !.virtual_functions =
                IF cur_fn.is_virtual
                THEN MapPut(@, cur_fn.signature, function_no) ELSE @,
            !.all_functions = MapPut(@, function_no, "usize::MAX")]

\* lines 658-666: the function is recorded in virtual_functions and all_functions
record_function(st, function_no) ==
    LET cur_fn == functions[function_no]
    IN  [st EXCEPT
            !.virtual_functions =
                IF cur_fn.is_override # None \/ cur_fn.is_virtual
                THEN MapPut(@, cur_fn.signature, function_no) ELSE @,
            !.all_functions = MapPut(@, function_no, "usize::MAX")]

\* lines 406-520: the signature of the function is pending in override_needed
override_pending(st, function_no) ==
    LET cur_fn == functions[function_no]
        signature == cur_fn.signature
        entry == st.override_needed[signature]
        not_virtual == SelectSeq(entry, LAMBDA e : ~functions[e[2]].is_virtual)
        non_virtual == [i \in 1..Len(not_virtual) |->
                           Note(FuncLoc(not_virtual[i][2]),
                                "function is not specified virtual", <<>>)]
        d_non_virtual ==
            IF non_virtual # <<>>
            THEN <<Error(FuncLoc(function_no),
                         "function overrides functions which are not virtual",
                         << <<function_no>> >>, non_virtual)>>
            ELSE <<>>
        source_override == [i \in 1..Len(entry) |-> entry[i][1]]
        needed == {entry[i][1] : i \in 1..Len(entry)}
    IN  IF cur_fn.is_override # None
        THEN LET specified == cur_fn.is_override[1]
                 missing == needed \ specified
                 extra == specified \ needed
                 d == IF specified = {} /\ Len(entry) > 1
                      THEN <<Error(OverrideLoc(function_no),
                                   "function should specify override list",
                                   << <<function_no>>, source_override >>, <<>>)>>
                      ELSE (IF missing # {} /\ Cardinality(needed) >= 2
                            THEN <<Error(OverrideLoc(function_no),
                                         "function missing overrides",
                                         << <<function_no>>, Sorted(missing),
                                            source_override >>, <<>>)>>
                            ELSE <<>>)
                           \o
                           (IF extra # {}
                            THEN <<Error(OverrideLoc(function_no),
                                         "function includes extraneous overrides",
                                         << <<function_no>>, Sorted(extra),
                                            source_override >>, <<>>)>>
                            ELSE <<>>)
             IN  [st EXCEPT !.diags = @ \o d_non_virtual \o d,
                            !.override_needed = MapRemove(@, signature)]
        ELSE IF Len(entry) = 1
        THEN [st EXCEPT
                !.diags = @ \o d_non_virtual \o
                    (IF ~is_interface(entry[1][1])
                     THEN <<Error(FuncLoc(function_no), "function should specify override",
                                  << <<function_no>> >>, <<>>)>>
                     ELSE <<>>),
                !.override_needed = MapRemove(@, signature)]
        ELSE [st EXCEPT
                !.diags = @ \o d_non_virtual \o
                    <<Error(FuncLoc(function_no), "function should specify override list",
                            << <<function_no>>, source_override >>, <<>>)>>]

\* `a.iter().zip(b.iter()).any(|(a, b)| a.ty != b.ty)`
zip_any_differ(a, b) ==
    \E i \in 1..(IF Len(a) < Len(b) THEN Len(a) ELSE Len(b)) : a[i] # b[i]

\* lines 548-655: the function against one previous definition
override_compare(st, base_contract_no, function_no, prev) ==
    LET cur_fn == functions[function_no]
        func_prev == functions[prev]
        signature == cur_fn.signature
        prev_contract_no == func_prev.contract_no
        err(loc, kind, args, note) ==
            [st EXCEPT !.diags = Append(@, Error(loc, kind, args,
                                                 <<Note(FuncLoc(prev), note, <<>>)>>))]
    IN  IF base_contract_no = func_prev.contract_no
        THEN err(FuncLoc(function_no), "function overrides function in same contract",
                 << <<function_no>> >>, "previous definition")
        ELSE IF func_prev.ty # cur_fn.ty
        THEN err(FuncLoc(function_no), "overrides function of another type",
                 << <<function_no>> >>, "previous definition")
        ELSE IF zip_any_differ(func_prev.params, cur_fn.params)
        THEN err(FuncLoc(function_no), "overrides with different argument types",
                 << <<function_no>> >>, "previous definition")
        ELSE IF zip_any_differ(func_prev.returns, cur_fn.returns)
        THEN err(FuncLoc(function_no), "overrides with different return types",
                 << <<function_no>> >>, "previous definition")
        ELSE IF cur_fn.is_override # None
        THEN IF ~func_prev.is_virtual
             THEN err(FuncLoc(function_no), "function overrides function which is not virtual",
                      << <<function_no>> >>, "previous definition of function")
             ELSE IF cur_fn.is_override[1] # {} /\ prev_contract_no \notin cur_fn.is_override[1]
             THEN err(OverrideLoc(function_no), "function override list does not contain",
                      << <<function_no>>, <<prev_contract_no>> >>,
                      "previous definition of function")
             ELSE st
        ELSE IF cur_fn.has_body
        THEN [st EXCEPT !.override_needed =
                IF signature \in DOMAIN @
                THEN MapPut(@, signature, Append(@[signature], <<base_contract_no, function_no>>))
                ELSE MapPut(@, signature, << <<prev_contract_no, prev>>,
                                             <<base_contract_no, function_no>> >>)]
        ELSE st

\* lines 548-655: `for prev in previous_defs.into_iter()`
RECURSIVE override_compare_all(_, _, _, _, _)
override_compare_all(st, base_contract_no, function_no, previous_defs, i) ==
    IF i > Len(previous_defs) THEN st
    ELSE override_compare_all(
             override_compare(st, base_contract_no, function_no, previous_defs[i]),
             base_contract_no, function_no, previous_defs, i + 1)

\* lines 401-667: one function of the visited contract
layout_function(st, base_contract_no, function_no, h) ==
    LET cur_fn == functions[function_no]
        signature == cur_fn.signature
        previous_defs ==
            InOrder({f \in DOMAIN st.all_functions :
                        functions[f].ty # "constructor" /\ functions[f].signature = signature},
                    h.fo)
    IN  IF signature \in DOMAIN st.override_needed
        THEN record_function(override_pending(st, function_no), function_no)
        ELSE IF previous_defs = <<>> /\ cur_fn.is_override # None
        THEN [st EXCEPT !.diags = Append(@,
                 Error(FuncLoc(function_no), "function does not override anything",
                       << <<function_no>> >>, <<>>))]
        ELSE IF previous_defs = <<>> /\ ~cur_fn.has_body
        THEN [st EXCEPT !.override_needed =
                 MapPut(@, signature, << <<base_contract_no, function_no>> >>)]
        ELSE record_function(
                 override_compare_all(st, base_contract_no, function_no, previous_defs, 1),
                 function_no)

\* lines 401-667: `for function_no in ns.contracts[base_contract_no].functions`
RECURSIVE layout_functions(_, _, _, _, _)
layout_functions(st, base_contract_no, fns, i, h) ==
    IF i > Len(fns) THEN st
    ELSE layout_functions(layout_function(st, base_contract_no, fns[i], h),
                          base_contract_no, fns, i + 1, h)

\* lines 321-668: one contract of the linearization
layout_base(st, base_contract_no, h) ==
    LET vsyms == variable_symbols(base_contract_no)
        fsyms == function_symbols(base_contract_no)
        s1 == merge_symbols(st, vsyms, InOrder(DOMAIN vsyms, h.no), 1)
        s2 == merge_symbols(s1, fsyms, InOrder(DOMAIN fsyms, h.no), 1)
        s3 == layout_variables(s2, base_contract_no, 1)
    IN  layout_functions(s3, base_contract_no, contract_functions(base_contract_no), 1, h)

\* layout_bases walking the linearization from its end
RECURSIVE layout_bases_derived_first(_, _, _, _)
layout_bases_derived_first(st, ord, i, h) ==
    IF i > Len(ord) THEN st
    ELSE layout_bases_derived_first(layout_base(st, ord[Len(ord) + 1 - i], h), ord, i + 1, h)

\* lines 321-668: `for base_contract_no in visit_bases(contract_no, ns)`
RECURSIVE layout_bases(_, _, _, _)
layout_bases(st, ord, i, h) ==
    IF i > Len(ord) THEN st
    ELSE layout_bases(layout_base(st, ord[i], h), ord, i + 1, h)

\* lines 672-730: one list still pending after the walk
override_unresolved(contract_no, list) ==
    LET func == functions[list[1][2]]
    IN  IF func.is_virtual /\ ~is_concrete(contract_no) THEN <<>>
        ELSE IF Len(list) = 1
        THEN <<Error(Loc("contract", <<contract_no>>),
                     CASE func.ty = "fallback" -> "contract missing override for fallback function"
                       [] func.ty = "receive" -> "contract missing override for receive function"
                       [] OTHER -> "contract missing override for function",
                     << <<contract_no>>, <<list[1][2]>> >>,
                     <<Note(FuncLoc(list[1][2]), "declaration of function", <<>>)>>)>>
        ELSE <<Error(FuncLoc(list[1][2]), "function with this signature already defined",
                     << <<list[1][2]>> >>,
                     [i \in 1..(Len(list) - 1) |->
                         Note(FuncLoc(list[i + 1][2]), "previous definition of function", <<>>)])>>

\* lines 672-730: `for list in override_needed.values()`
RECURSIVE override_unresolved_all(_, _, _, _)
override_unresolved_all(contract_no, override_needed, sigs, i) ==
    IF i > Len(sigs) THEN <<>>
    ELSE override_unresolved(contract_no, override_needed[sigs[i]])
            \o override_unresolved_all(contract_no, override_needed, sigs, i + 1)

\* layout_contract(contract_no, ns) under the iteration orders h: the
\* diagnostics pushed and the fields of the contract after the call
layout_contract(contract_no, h) ==
    LET st0 == [diags |-> <<>>,
                function_syms |-> EmptyMap,
                variable_syms |-> EmptyMap,
                override_needed |-> EmptyMap,
                slot |-> IF target = "Solana" THEN SOLANA_FIRST_OFFSET ELSE 0,
                layout |-> layout[contract_no],
                dynamic_storage |-> dynamic_storage[contract_no],
                all_functions |-> all_functions[contract_no],
                virtual_functions |-> virtual_functions[contract_no]]
        st == layout_bases(st0, visit_bases(contract_no), 1, h)
    IN  [st EXCEPT !.diags = @ \o
            override_unresolved_all(contract_no, st.override_needed,
                                    InOrder(DOMAIN st.override_needed, h.so), 1)]

\* layout_contract(contract_no, ns) and what it leaves in the namespace
Layout(contract_no, h) ==
    \E st \in {layout_contract(contract_no, h)} :
        /\ diagnostics' = diagnostics \o st.diags
        /\ layout' = [layout EXCEPT ![contract_no] = st.layout]
        /\ dynamic_storage' = [dynamic_storage EXCEPT ![contract_no] = st.dynamic_storage]
        /\ fixed_layout_size' = [fixed_layout_size EXCEPT ![contract_no] = st.slot]
        /\ all_functions' = [all_functions EXCEPT ![contract_no] = st.all_functions]
        /\ virtual_functions' =
               [virtual_functions EXCEPT ![contract_no] = st.virtual_functions]

\* resolve, lines 127-129: one iteration of `for (contract_no, _) in contracts`
LayoutContract ==
    /\ pc = "layout_contract"
    /\ cur \in Contracts
    /\ \E h \in HashOrders : Layout(cur, h)
    /\ cur' = cur + 1
    /\ pc' = IF cur + 1 \in Contracts THEN pc ELSE "resolve_bodies"
    /\ UNCHANGED <<bases, decls, order, declared, bodies, call>>

\* layout_contract called once more, for a contract that has been laid out
LayoutContractAgain(contract_no) ==
    /\ pc = "resolve_bodies"
    /\ \E h \in HashOrders : Layout(contract_no, h)
    /\ cur' = contract_no
    /\ pc' = "layout_contract again"
    /\ UNCHANGED <<bases, decls, order, declared, bodies, call>>

-----------------------------------------------------------------------------
(* Constructors.  A constructor is a function of ty "constructor"; `bases`  *)
(* maps a base contract to the constructor of the base that the             *)
(* modifier-style call on this constructor selects.  The constructor field  *)
(* of a Base is None, or Some of the constructor that the argument list of  *)
(* the base list selects (resolve_base_args, lines 255-267).                *)

\* ast::Function::is_constructor
is_constructor(function_no) == functions[function_no].ty = "constructor"

\* ast::Contract::have_constructor
have_constructor(c) ==
    \E i \in 1..Len(contract_functions(c)) : is_constructor(contract_functions(c)[i])

\* ast::Contract::no_args_constructor: Option<usize>
no_args_constructor(c) ==
    LET found == SelectSeq(contract_functions(c),
                           LAMBDA f : is_constructor(f) /\ functions[f].params = <<>>)
    IN  IF found = <<>> THEN None ELSE Some(found[1])

\* ast::Contract::constructor_needs_arguments
constructor_needs_arguments(c) == have_constructor(c) /\ no_args_constructor(c) = None

\* the location of the modifier-style call for base_no on a constructor
ModifierLoc(constructor_no, base_no) == Loc("modifier", <<constructor_no, base_no>>)

\* Base.loc of the base base_no in the base list of contract_no
BaseLoc(contract_no, base_no) == Loc("base", <<contract_no, base_no>>)

BaseOrModifier(loc, defined_constructor_no, calling_constructor_no) ==
    [loc |-> loc, defined_constructor_no |-> defined_constructor_no,
     calling_constructor_no |-> calling_constructor_no]

\* lines 900-911 and 931-942
DuplicateArgument(loc, base_no, prev_args) ==
    Error(loc, "duplicate argument for base contract", << <<base_no>> >>,
          <<Note(prev_args.loc, "previous argument for base contract", << <<base_no>> >>)>>)

\* lines 1008-1014 and 1025-1031
MissingArguments(contract_no, base_no) ==
    Error(Loc("contract", <<contract_no>>),
          "missing arguments to base contract constructor", << <<base_no>> >>, <<>>)

\* collect_base_args: acc holds base_args (a map) and diagnostics (a set);
\* bo is the order in which the map constructor.bases is iterated
RECURSIVE collect_base_args(_, _, _, _), collect_modifiers(_, _, _, _, _),
          collect_base_list(_, _, _, _), collect_base_list_overwrites(_, _, _, _)

\* lines 898-925: the modifier-style calls of the constructor, from position i
collect_modifiers(defined_constructor_no, keys, i, acc, bo) ==
    IF i > Len(keys) THEN acc
    ELSE LET base_no == keys[i]
             constructor_no == functions[defined_constructor_no].bases[base_no]
             loc == ModifierLoc(defined_constructor_no, base_no)
         IN  collect_modifiers(defined_constructor_no, keys, i + 1,
                 IF base_no \in DOMAIN acc.base_args
                 THEN [acc EXCEPT !.diagnostics =
                          @ \cup {DuplicateArgument(loc, base_no, acc.base_args[base_no])}]
                 ELSE collect_base_args(base_no, Some(constructor_no),
                          [acc EXCEPT !.base_args =
                              MapPut(@, base_no,
                                     BaseOrModifier(loc, Some(defined_constructor_no),
                                                    constructor_no))], bo),
                 bo)

\* collect_base_list with lines 930-942 left out: the arguments of the base
\* list replace the arguments collected before
collect_base_list_overwrites(contract_no, i, acc, bo) ==
    IF i > Len(bases[contract_no]) THEN acc
    ELSE LET base == bases[contract_no][i]
             loc == BaseLoc(contract_no, base.contract_no)
         IN  collect_base_list_overwrites(contract_no, i + 1,
                 IF base.constructor # None
                 THEN collect_base_args(base.contract_no, base.constructor,
                          [acc EXCEPT !.base_args =
                              MapPut(@, base.contract_no,
                                     BaseOrModifier(loc, None, base.constructor[1]))],
                          bo)
                 ELSE collect_base_args(base.contract_no,
                                        no_args_constructor(base.contract_no), acc, bo),
                 bo)

\* lines 928-971: the base list of the contract, from position i
collect_base_list(contract_no, i, acc, bo) ==
    IF i > Len(bases[contract_no]) THEN acc
    ELSE LET base == bases[contract_no][i]
             loc == BaseLoc(contract_no, base.contract_no)
         IN  collect_base_list(contract_no, i + 1,
                 IF base.constructor # None
                 THEN IF base.contract_no \in DOMAIN acc.base_args
                      THEN [acc EXCEPT !.diagnostics =
                               @ \cup {DuplicateArgument(loc, base.contract_no,
                                                         acc.base_args[base.contract_no])}]
                      ELSE collect_base_args(base.contract_no, base.constructor,
                               [acc EXCEPT !.base_args =
                                   MapPut(@, base.contract_no,
                                          BaseOrModifier(loc, None, base.constructor[1]))],
                               bo)
                 ELSE collect_base_args(base.contract_no,
                                        no_args_constructor(base.contract_no), acc, bo),
                 bo)

\* lines 886-972
collect_base_args(contract_no, constructor_no, acc, bo) ==
    collect_base_list(contract_no, 1,
        IF constructor_no # None
        THEN collect_modifiers(constructor_no[1],
                               InOrder(DOMAIN functions[constructor_no[1]].bases, bo), 1,
                               acc, bo)
        ELSE acc,
        bo)

\* lines 983-988
base_args_needed(contract_no) ==
    SelectSeq(visit_bases(contract_no),
              LAMBDA base_no : base_no # contract_no /\ constructor_needs_arguments(base_no))

\* check_constructor with the missing arguments reported at the constructor
check_constructor_at_constructor(contract_no, constructor_no, diags, bo) ==
    LET acc == collect_base_args(contract_no, constructor_no,
                                 [base_args |-> EmptyMap, diagnostics |-> diags], bo)
    IN  acc.diagnostics \cup
            {Error(IF constructor_no = None THEN Loc("contract", <<contract_no>>)
                   ELSE FuncLoc(constructor_no[1]),
                   "missing arguments to base contract constructor", << <<base_no>> >>, <<>>) :
                base_no \in {b \in Range(base_args_needed(contract_no)) :
                                b \notin DOMAIN acc.base_args}}

\* lines 996-1016 and 1019-1033: one walk and its missing arguments, added to
\* the set of diagnostics
check_constructor(contract_no, constructor_no, diags, bo) ==
    LET acc == collect_base_args(contract_no, constructor_no,
                                 [base_args |-> EmptyMap, diagnostics |-> diags], bo)
    IN  acc.diagnostics \cup
            {MissingArguments(contract_no, base_no) :
                base_no \in {b \in Range(base_args_needed(contract_no)) :
                                b \notin DOMAIN acc.base_args}}

\* lines 991-1017: `for constructor_no in contract.functions ... is_constructor`
RECURSIVE check_constructors(_, _, _, _, _)
check_constructors(contract_no, constructors, i, diags, bo) ==
    IF i > Len(constructors) THEN diags
    ELSE check_constructors(contract_no, constructors, i + 1,
             check_constructor(contract_no, Some(constructors[i]), diags, bo), bo)

\* check_base_args: the set of diagnostics it extends ns.diagnostics with
check_base_args(contract_no, bo) ==
    IF ~is_concrete(contract_no) THEN {}
    ELSE IF have_constructor(contract_no)
    THEN check_constructors(contract_no,
                            SelectSeq(contract_functions(contract_no), is_constructor),
                            1, {}, bo)
    ELSE check_constructor(contract_no, None, {}, bo)

-----------------------------------------------------------------------------
(* resolve, from the end of the layout loop: resolve_bodies, then the       *)
(* check_base_args loop.  resolve_function_body is not part of this file:   *)
(* a body resolves or it does not.                                          *)

\* the function_bodies of resolve: resolve_declarations pushes every function
\* that has a body, contract by contract (lines 117-121 and 755-756)
function_bodies == SelectSeq([f \in FunctionNos |-> f], LAMBDA f : functions[f].has_body)

\* one turn of the loop of resolve_bodies (lines 866-872)
ResolveBody ==
    /\ pc = "resolve_bodies"
    /\ body_no < Len(function_bodies)
    /\ \E is_err \in BOOLEAN : broken' = (broken \/ is_err)
    /\ body_no' = body_no + 1
    /\ UNCHANGED <<bases, decls, diagnostics, cur, pc, order, declared, laid_out, call>>

\* with the test of line 132 always taken
bodies_resolved_always == TRUE

\* line 132: `if !resolve_bodies(function_bodies, file_no, ns)`
bodies_resolved == ~broken

\* resolve_bodies returns `broken` (line 874) and resolve tests it (line 132)
ResolveBodiesReturn ==
    /\ pc = "resolve_bodies"
    /\ body_no = Len(function_bodies)
    /\ pc' = IF bodies_resolved THEN "check_base_args" ELSE "done"
    /\ cur' = 0
    /\ UNCHANGED <<bases, decls, diagnostics, order, declared, laid_out, bodies, call>>

\* the orders in which a HashSet can be drained
RECURSIVE Drained(_)
Drained(S) ==
    IF S = {} THEN {<<>>}
    ELSE UNION {{<<x>> \o rest : rest \in Drained(S \ {x})} : x \in S}

\* one turn of the loop of lines 134-136; the HashSet of diagnostics is
\* drained in any order (line 1036)
CheckBaseArgs ==
    /\ pc = "check_base_args"
    /\ cur \in Contracts
    /\ \E bo \in Perms(Contracts) :
           \E found \in Drained(check_base_args(cur, bo)) :
               diagnostics' = diagnostics \o found
    /\ cur' = cur + 1
    /\ pc' = IF cur + 1 \in Contracts THEN pc ELSE "done"
    /\ UNCHANGED <<bases, decls, order, declared, laid_out, bodies, call>>

-----------------------------------------------------------------------------
(* The namespace after construction: ast::Contract::new for n contracts *)

InitNamespace(n) ==
    /\ decls = <<>>
    /\ diagnostics = <<>>
    /\ cur = 0
    /\ order = <<>>
    /\ layout = [c \in 0..(n - 1) |-> <<>>]
    /\ fixed_layout_size = [c \in 0..(n - 1) |-> 0]
    /\ dynamic_storage = [c \in 0..(n - 1) |-> FALSE]
    /\ all_functions = [c \in 0..(n - 1) |-> EmptyMap]
    /\ virtual_functions = [c \in 0..(n - 1) |-> EmptyMap]
    /\ body_no = 0
    /\ broken = FALSE
    /\ call = NoCall

NoBases(n) == bases = [c \in 0..(n - 1) |-> <<>>]

NoDeclarations(n) ==
    /\ variables = [c \in 0..(n - 1) |-> <<>>]
    /\ functions = <<>>

-----------------------------------------------------------------------------
(* SpecResolve: resolve_base_contracts over a file of contracts, the        *)
(* declared bases drawn one at a time.  resolve_base_contracts tells the    *)
(* kinds apart by is_library and is_interface alone, so an abstract         *)
(* contract behaves as a contract does and is left out here.                *)

Kinds == {"contract", "abstract contract", "interface", "library"}

ResolveKinds == {"contract", "interface", "library"}

InitResolve ==
    /\ ty \in [0..(ResolveContracts - 1) -> ResolveKinds]
    /\ InitNamespace(ResolveContracts)
    /\ NoBases(ResolveContracts)
    /\ NoDeclarations(ResolveContracts)
    /\ target = "Substrate"
    /\ pc = "resolve_base_contracts"

NextResolve ==
    \/ \E name \in Names : ResolveBase(name)
    \/ NextContract

SpecResolve == InitResolve /\ [][NextResolve]_vars

-----------------------------------------------------------------------------
(* SpecVisit: visit_bases applied to every contract of every acyclic base   *)
(* graph (the graphs resolve_base_contracts builds: no self-reference, no   *)
(* duplicate, no cycle), the contracts numbered bases first.                *)

RECURSIVE BaseGraphSeqs(_)
BaseGraphSeqs(n) ==
    IF n = 0 THEN {<<>>}
    ELSE {Append(g, s) : g \in BaseGraphSeqs(n - 1), s \in OrderedSubsets(0..(n - 2))}

\* contract c declares the bases g[c], each of them numbered below c
BaseGraphs(n) == {[c \in 0..(n - 1) |-> g[c + 1]] : g \in BaseGraphSeqs(n)}

InitVisit ==
    /\ ty = [c \in 0..(VisitContracts - 1) |-> "contract"]
    /\ InitNamespace(VisitContracts)
    /\ \E g \in BaseGraphs(VisitContracts) :
           bases = [c \in 0..(VisitContracts - 1) |->
                       [i \in 1..Len(g[c]) |-> Base(g[c][i])]]
    /\ NoDeclarations(VisitContracts)
    /\ target = "Substrate"
    /\ pc = "visit_bases"

VisitBases(contract_no) ==
    /\ pc = "visit_bases"
    /\ order' = visit_bases(contract_no)
    /\ cur' = contract_no
    /\ pc' = "visited"
    /\ UNCHANGED <<bases, decls, diagnostics, declared, laid_out, bodies, call>>

NextVisit == \E c \in Contracts : VisitBases(c)

SpecVisit == InitVisit /\ [][NextVisit]_vars

-----------------------------------------------------------------------------
(* The hierarchies layout_contract is applied to: three contracts, numbered *)
(* bases first, with every base graph resolve_base_contracts can build.     *)

Hierarchies == BaseGraphs(3)

InitHierarchy ==
    /\ InitNamespace(3)
    /\ \E g \in Hierarchies :
           bases = [c \in DOMAIN g |-> [i \in 1..Len(g[c]) |-> Base(g[c][i])]]

-----------------------------------------------------------------------------
(* SpecLayout: resolve's loop over layout_contract, on contracts that       *)
(* declare variables only.  Every variable has a name of its own; it is a   *)
(* bool, a uint64 or a string in storage, or a constant.                    *)

VariableName(c, v) == <<"a", "b", "c">>[c + 1] \o ToString(v)

VariableKinds ==
    {[constant |-> FALSE, ty |-> "bool"], [constant |-> FALSE, ty |-> "uint64"],
     [constant |-> FALSE, ty |-> "string"], [constant |-> TRUE, ty |-> "uint64"]}

Variable(c, v, k) ==
    [name |-> VariableName(c, v), constant |-> k.constant, ty |-> k.ty,
     visibility |-> "internal"]

\* the declarations of n variables in contract c
VariableSeqs(c, n) == {[v \in 1..n |-> Variable(c, v, ks[v])] : ks \in [1..n -> VariableKinds]}

Targets == {"Solana", "Substrate"}

InitLayout ==
    /\ ty = [c \in 0..2 |-> "contract"]
    /\ InitHierarchy
    /\ target \in Targets
    /\ \E n \in [0..2 -> 0..MaxVars] :
           /\ n[0] + n[1] + n[2] <= MaxVars
           /\ \E v0 \in VariableSeqs(0, n[0]), v1 \in VariableSeqs(1, n[1]),
                 v2 \in VariableSeqs(2, n[2]) :
                  variables = [c \in 0..2 |-> <<v0, v1, v2>>[c + 1]]
    /\ functions = <<>>
    /\ pc = "layout_contract"

NextLayout == LayoutContract

SpecLayout == InitLayout /\ [][NextLayout]_vars

-----------------------------------------------------------------------------
(* SpecSymbols: resolve's loop over layout_contract, on contracts that      *)
(* declare uint64 variables named x or y, private or internal, constant or  *)
(* not; the names of the variables of one contract are distinct.  (A public *)
(* variable comes with an accessor function and is left out.)               *)

SymbolVariableNames == {"x", "y"}

SymbolVariables ==
    [name : SymbolVariableNames, constant : BOOLEAN, ty : {"uint64"},
     visibility : {"private", "internal"}]

\* the declarations of n variables in a contract
SymbolVariableSeqs(n) ==
    {vs \in [1..n -> SymbolVariables] :
        \A i, j \in 1..n : i # j => vs[i].name # vs[j].name}

InitSymbols ==
    /\ ty = [c \in 0..2 |-> "contract"]
    /\ InitHierarchy
    /\ target = "Substrate"
    /\ \E n \in [0..2 -> 0..Cardinality(SymbolVariableNames)] :
           /\ n[0] + n[1] + n[2] <= MaxVars
           /\ \E v0 \in SymbolVariableSeqs(n[0]), v1 \in SymbolVariableSeqs(n[1]),
                 v2 \in SymbolVariableSeqs(n[2]) :
                  variables = [c \in 0..2 |-> <<v0, v1, v2>>[c + 1]]
    /\ functions = <<>>
    /\ pc = "layout_contract"

NextSymbols == LayoutContract

SpecSymbols == InitSymbols /\ [][NextSymbols]_vars

-----------------------------------------------------------------------------
(* SpecOverride: resolve's loop over layout_contract, on contracts that     *)
(* declare functions only: each contract declares f() or nothing.  A        *)
(* function of an interface is virtual and has no body, and so has no       *)
(* `override`; a function without a body is virtual; the bases of an        *)
(* interface are interfaces.  An override list names contracts declared     *)
(* before the function's contract.                                          *)

OverrideKinds == {"contract", "abstract contract", "interface"}

OverrideLists(c) == {None} \cup {Some(S) : S \in SUBSET (0..(c - 1))}

Function(c, virtual, override, body) ==
    [contract_no |-> c, name |-> "f", signature |-> "f()", ty |-> "function",
     is_virtual |-> virtual, is_override |-> override, has_body |-> body,
     params |-> <<>>, returns |-> <<>>, is_accessor |-> FALSE]

\* the function declarations of contract c: none, or one of f()
FunctionSeqs(c) ==
    {<<>>} \cup
    IF is_interface(c)
    THEN {<<Function(c, TRUE, None, FALSE)>>}
    ELSE {<<Function(c, vb[1], o, vb[2])>> :
             vb \in {<<TRUE, TRUE>>, <<TRUE, FALSE>>, <<FALSE, TRUE>>},
             o \in OverrideLists(c)}

InitOverride ==
    /\ ty \in [0..2 -> OverrideKinds]
    /\ InitHierarchy
    /\ \A c \in Contracts : is_interface(c) => \A b \in BaseNos(c) : is_interface(b)
    /\ target = "Substrate"
    /\ variables = [c \in 0..2 |-> <<>>]
    /\ \E f0 \in FunctionSeqs(0), f1 \in FunctionSeqs(1), f2 \in FunctionSeqs(2) :
           functions = f0 \o f1 \o f2
    /\ pc = "layout_contract"

NextOverride == LayoutContract

SpecOverride == InitOverride /\ [][NextOverride]_vars

-----------------------------------------------------------------------------
(* SpecDiamond: resolve's loop over layout_contract on a diamond of four    *)
(* contracts: 1 and 2 inherit 0, and 3 inherits 1 and 2, in either order.   *)
(* Contract 0, abstract or an interface, declares the virtual f(); each of  *)
(* the others declares f() or nothing; an override list of contract 3 names *)
(* its direct bases only.                                                   *)

DiamondBases ==
    {[c \in 0..3 |-> CASE c = 0 -> <<>>
                       [] c \in {1, 2} -> <<Base(0)>>
                       [] c = 3 -> o] : o \in {<<Base(1), Base(2)>>, <<Base(2), Base(1)>>}}

InitDiamond ==
    /\ ty \in {[c \in 0..3 |-> IF c = 0 THEN k ELSE "contract"] :
                  k \in {"abstract contract", "interface"}}
    /\ InitNamespace(4)
    /\ bases \in DiamondBases
    /\ target = "Substrate"
    /\ variables = [c \in 0..3 |-> <<>>]
    /\ \E f0 \in FunctionSeqs(0) \ {<<>>}, f1 \in FunctionSeqs(1), f2 \in FunctionSeqs(2),
          f3 \in FunctionSeqs(3) :
           /\ f0[1].is_virtual /\ f0[1].is_override = None
           /\ \A i \in DOMAIN f3 : \A o \in Range(f3[i].is_override) : 0 \notin o
           /\ functions = f0 \o f1 \o f2 \o f3
    /\ pc = "layout_contract"

NextDiamond == LayoutContract

SpecDiamond == InitDiamond /\ [][NextDiamond]_vars

-----------------------------------------------------------------------------
(* SpecRelayout: as SpecLayout, and as SpecOverride with concrete contracts *)
(* alone; after resolve's loop layout_contract is called once more, for any *)
(* one contract.                                                            *)

InitRelayout ==
    \/ InitLayout
    \/ InitOverride /\ \A c \in Contracts : ty[c] = "contract"

NextRelayout ==
    \/ LayoutContract
    \/ \E c \in Contracts : LayoutContractAgain(c)

SpecRelayout == InitRelayout /\ [][NextRelayout]_vars

-----------------------------------------------------------------------------
(* resolve from the layout loop to its end, for three contracts that        *)
(* declare constructors only.  A contract declares no constructor, one      *)
(* without parameters, one with a parameter, or both.  A base of a base     *)
(* list carries no arguments or the constructor its arguments match         *)
(* (resolve_base_args, lines 255-267); a constructor carries the            *)
(* modifier-style calls of its definition, each to a constructor of a base. *)

MaxModifiers == 1

ConstructorLists == {<<>>, << <<>> >>, << <<"uint64">> >>, << <<>>, <<"uint64">> >>}

RECURSIVE ConstructorsBefore(_, _)
ConstructorsBefore(p, c) ==
    IF c = 0 THEN 0 ELSE ConstructorsBefore(p, c - 1) + Len(p[c - 1])

\* the function numbers of the constructors of contract c
ConstructorsOf(p, c) == {ConstructorsBefore(p, c) + i : i \in 1..Len(p[c])}

\* the base lists of a contract whose bases are the contracts s
BaseLists(p, s) ==
    {[i \in 1..Len(s) |-> [contract_no |-> s[i], constructor |-> sel[i]]] :
        sel \in {x \in [1..Len(s) -> {None} \cup {Some(k) : k \in 1..ConstructorsBefore(p, 3)}] :
                    \A i \in 1..Len(s) :
                        x[i] = None \/ x[i][1] \in ConstructorsOf(p, s[i])}}

\* the modifier-style calls of one constructor of contract c
ModifierMaps(p, c) ==
    UNION {{m \in [S -> 1..ConstructorsBefore(p, 3)] :
               \A b \in S : m[b] \in ConstructorsOf(p, b)} :
           S \in {T \in SUBSET TransitiveBases(c) : Cardinality(T) <= MaxModifiers}}

Constructor(c, params, modifiers) ==
    [contract_no |-> c, name |-> "", ty |-> "constructor",
     signature |-> IF params = <<>> THEN "()" ELSE "(uint64)",
     is_virtual |-> FALSE, is_override |-> None, has_body |-> TRUE,
     params |-> params, returns |-> <<>>, is_accessor |-> FALSE,
     bases |-> modifiers]

\* the constructors of contract c
OwnConstructors(p, c) ==
    {[i \in 1..Len(p[c]) |-> Constructor(c, p[c][i], m[i])] :
        m \in [1..Len(p[c]) -> ModifierMaps(p, c)]}

\* ns.functions for the contracts 0..c
RECURSIVE ConstructorSeqs(_, _)
ConstructorSeqs(p, c) ==
    IF c < 0 THEN {<<>>}
    ELSE {l \o own : l \in ConstructorSeqs(p, c - 1), own \in OwnConstructors(p, c)}

\* the declarations of three contracts with at most n constructors in all;
\* the first two contracts are concrete
ConstructorDeclarations(n) ==
    /\ ty \in {k \in [0..2 -> {"contract", "abstract contract"}] :
                  k[0] = "contract" /\ k[1] = "contract"}
    /\ target = "Substrate"
    /\ variables = [c \in 0..2 |-> <<>>]
    /\ \E p \in {q \in [0..2 -> ConstructorLists] : ConstructorsBefore(q, 3) <= n} :
           /\ \E g \in Hierarchies :
                  \E b0 \in BaseLists(p, g[0]), b1 \in BaseLists(p, g[1]),
                     b2 \in BaseLists(p, g[2]) :
                      bases = [c \in 0..2 |-> CASE c = 0 -> b0 [] c = 1 -> b1 [] c = 2 -> b2]
           /\ functions \in ConstructorSeqs(p, 2)

FlowConstructors == 2

InitConstructors ==
    /\ InitNamespace(3)
    /\ ConstructorDeclarations(FlowConstructors)
    /\ pc = "layout_contract"

NextConstructors ==
    \/ LayoutContract
    \/ ResolveBody
    \/ ResolveBodiesReturn
    \/ CheckBaseArgs

SpecConstructors == InitConstructors /\ [][NextConstructors]_vars

\* what the layout loop leaves for contracts that declare constructors only:
\* every constructor of the linearization is recorded (line 676), nothing is
\* stored and nothing is reported
ConstructorsLaidOut ==
    /\ layout = [c \in Contracts |-> <<>>]
    /\ fixed_layout_size = [c \in Contracts |-> 0]
    /\ dynamic_storage = [c \in Contracts |-> FALSE]
    /\ virtual_functions = [c \in Contracts |-> EmptyMap]
    /\ all_functions =
           [c \in Contracts |->
               [f \in {k \in FunctionNos :
                          functions[k].contract_no \in Range(visit_bases(c))} |->
                   "usize::MAX"]]
    /\ diagnostics = <<>>

MaxConstructors == 4

\* resolve at the entry of the check_base_args loop: every body resolved
InitBaseArgs ==
    /\ ConstructorDeclarations(MaxConstructors)
    /\ ConstructorsLaidOut
    /\ decls = <<>>
    /\ order = <<>>
    /\ body_no = Len(function_bodies)
    /\ broken = FALSE
    /\ call = NoCall
    /\ cur = 0
    /\ pc = "check_base_args"

NextBaseArgs == CheckBaseArgs

SpecBaseArgs == InitBaseArgs /\ [][NextBaseArgs]_vars

-----------------------------------------------------------------------------
(* Claims about visit_bases (SpecVisit) *)

NoRepeat(s) == \A i, j \in 1..Len(s) : i # j => s[i] # s[j]

\* C1: visit_bases(C) of an acyclic base graph holds C and every contract
\* reachable from C through `bases`, each exactly once, holds no other
\* contract, and lists C last.
C1_VisitBasesExactlyOnce ==
    pc = "visited" =>
        /\ Range(order) = {cur} \cup TransitiveBases(cur)
        /\ NoRepeat(order)
        /\ Len(order) >= 1
        /\ order[Len(order)] = cur

\* a diamond was visited: two direct bases of C share a base
C1_Witness ==
    /\ pc = "visited"
    /\ \E x, y \in BaseNos(cur) :
           x # y /\ BaseNos(x) \cap BaseNos(y) # {} /\ y \notin TransitiveBases(x)
                 /\ x \notin TransitiveBases(y)
    /\ Len(order) = 4

\* C2: in visit_bases(C) every contract comes after all of its direct and
\* transitive bases.
C2_BasesPrecedeDerived ==
    pc = "visited" =>
        \A i, j \in 1..Len(order) :
            order[j] \in TransitiveBases(order[i]) => j < i

\* a chain of three was visited, and a contract with two bases of which one
\* is also a base of the other
C2_Witness ==
    /\ pc = "visited"
    /\ Len(order) >= 3
    /\ \E x \in BaseNos(cur) : BaseNos(x) \cap BaseNos(cur) # {}

-----------------------------------------------------------------------------
(* Claims about resolve_base_contracts (SpecResolve) *)

RECURSIVE SumLen(_, _)
SumLen(f, S) ==
    IF S = {} THEN 0
    ELSE LET x == CHOOSE x \in S : TRUE IN Len(f[x]) + SumLen(f, S \ {x})

BaseContractSeq(c) == [i \in 1..Len(bases[c]) |-> bases[c][i].contract_no]

HasDiagnostic(kind) == \E i \in 1..Len(diagnostics) : diagnostics[i].kind = kind

\* C3: after every declaration resolve_base_contracts has processed, no
\* contract has itself as a base, no contract has a base twice, and the base
\* relation is acyclic.
C3_BasesWellFormed ==
    /\ \A c \in Contracts : c \notin BaseNos(c) /\ NoRepeat(BaseContractSeq(c))
    /\ Acyclic

\* a base that closes a cycle of three contracts was declared and rejected
C3_Witness ==
    /\ HasDiagnostic("base is cyclic")
    /\ Len(decls) = 3
    /\ \A c \in Contracts : Len(bases[c]) <= 1
    /\ SumLen(bases, Contracts) = 2

\* C4: every declaration appends either one Base with constructor None and
\* no diagnostic, or one error diagnostic and no Base; a declaration of the
\* contract itself, of a base already present and of a base that closes a
\* cycle is rejected, each with its own kind of error (in a contract that is
\* not a library); so bases appended + diagnostics appended = declarations.
C4_OneOutcomePerDeclaration ==
    [][decls' # decls =>
        LET d == decls'[Len(decls')]
            c == d.contract_no
            accepted == /\ bases' = [bases EXCEPT ![c] = Append(@, Base(d.name))]
                        /\ diagnostics' = diagnostics
            rejected == /\ bases' = bases
                        /\ Len(diagnostics') = Len(diagnostics) + 1
                        /\ SubSeq(diagnostics', 1, Len(diagnostics)) = diagnostics
                        /\ diagnostics'[Len(diagnostics')].level = "error"
            kind == diagnostics'[Len(diagnostics')].kind
        IN  /\ Len(decls') = Len(decls) + 1
            /\ (accepted /\ ~rejected) \/ (rejected /\ ~accepted)
            /\ d.name = c => rejected
            /\ d.name \in BaseNos(c) => rejected
            /\ (d.name \in Contracts /\ c \in TransitiveBases(d.name)) => rejected
            /\ ~is_library(c) =>
                 /\ d.name = c =>
                        kind = "contract cannot have itself as a base contract"
                 /\ d.name \in BaseNos(c) => kind = "duplicate base"
                 /\ (d.name \in Contracts /\ d.name # c /\ d.name \notin BaseNos(c)
                        /\ c \in TransitiveBases(d.name)) => kind = "base is cyclic"
            /\ (SumLen(bases, Contracts) + Len(diagnostics) = Len(decls))'
    ]_vars

\* one contract declared itself, then a base, then that base again: the
\* first and the third were rejected, the second was accepted in between
C4_Witness ==
    /\ Len(decls) = 3
    /\ decls[1].contract_no = decls[3].contract_no
    /\ Len(diagnostics) = 2
    /\ diagnostics[1].kind = "contract cannot have itself as a base contract"
    /\ diagnostics[2].kind = "duplicate base"
    /\ Len(bases[decls[1].contract_no]) = 1

\* C5: no contract has a library as a base, a library has no base, and every
\* base of an interface is an interface.
C5_KindsOfBases ==
    \A c \in Contracts :
        /\ \A b \in BaseNos(c) : ~is_library(b)
        /\ is_library(c) => bases[c] = <<>>
        /\ is_interface(c) => \A b \in BaseNos(c) : is_interface(b)

\* resolve_base_contracts has returned; an interface has an interface as
\* its base, and a library declared as a base was rejected
C5_Witness ==
    /\ pc = "resolved"
    /\ \E c \in Contracts : is_interface(c) /\ bases[c] # <<>>
    /\ \E i \in 1..Len(decls) :
           /\ decls[i].name \in Contracts
           /\ is_library(decls[i].name)
           /\ ~is_library(decls[i].contract_no)

-----------------------------------------------------------------------------
(* Claims about the storage layout (SpecLayout, SpecRelayout) *)

\* contract 2 inherits contract 1, which inherits contract 0
IsChain == bases = [c \in 0..2 |-> IF c = 0 THEN <<>> ELSE <<Base(c - 1)>>]

AllInStorage ==
    \A c \in Contracts : \A v \in 1..Len(variables[c]) : ~variables[c][v].constant

\* the variables of contract c, in declaration order
DeclaredVariables(c) == [v \in 1..Len(variables[c]) |-> <<c, v>>]

\* the variables of the layout of contract c, in the order of the entries
LaidOutVariables(c) ==
    [i \in 1..Len(layout[c]) |-> <<layout[c][i].contract_no, layout[c][i].var_no>>]

\* C6: for a chain where C (2) inherits B (1) and B inherits A (0), all of
\* their variables non-constant and of distinct names, the layout of C after
\* layout_contract(C) lists A's variables in declaration order, then B's,
\* then C's, and the slots never decrease along the entries.
C6_ChainLayoutOrder ==
    (pc = "resolve_bodies" /\ IsChain /\ AllInStorage) =>
        /\ LaidOutVariables(2) =
               DeclaredVariables(0) \o DeclaredVariables(1) \o DeclaredVariables(2)
        /\ \A i, j \in 1..Len(layout[2]) :
               i < j => layout[2][i].slot <= layout[2][j].slot

C6_Witness ==
    /\ pc = "resolve_bodies"
    /\ IsChain
    /\ AllInStorage
    /\ \A c \in Contracts : Len(variables[c]) >= 1
    /\ Len(layout[2]) = Len(variables[0]) + Len(variables[1]) + Len(variables[2])

\* C7: after layout_contract(C) the slots of C.layout strictly increase in
\* the order of the entries; on Solana every slot is a multiple of the
\* alignment of the type of its variable and is not below SOLANA_FIRST_OFFSET.
C7_SlotsIncreaseAligned ==
    \A c \in Contracts :
        /\ \A i, j \in 1..Len(layout[c]) :
               i < j => layout[c][i].slot < layout[c][j].slot
        /\ target = "Solana" =>
               \A i \in 1..Len(layout[c]) :
                   /\ layout[c][i].slot % align_of(layout[c][i].ty) = 0
                   /\ layout[c][i].slot >= SOLANA_FIRST_OFFSET

\* a layout on Solana in which padding precedes an entry
C7_Witness ==
    /\ pc = "resolve_bodies"
    /\ target = "Solana"
    /\ \E c \in Contracts : \E i \in 1..(Len(layout[c]) - 1) :
           layout[c][i + 1].slot > layout[c][i].slot + storage_slots(layout[c][i].ty)

\* C8: layout_contract run a second time for a contract, the namespace
\* otherwise as the first run left it, changes nothing: no entry is added to
\* the layout of the contract and no diagnostic is added.
C8_SecondRunChangesNothing ==
    [][pc' = "layout_contract again" =>
          /\ diagnostics' = diagnostics
          /\ layout' = layout
          /\ fixed_layout_size' = fixed_layout_size
          /\ dynamic_storage' = dynamic_storage
          /\ all_functions' = all_functions
          /\ virtual_functions' = virtual_functions]_vars

-----------------------------------------------------------------------------
(* Claims about override resolution (SpecOverride) *)

Declares(c) == contract_functions(c) # <<>>

\* the function f() of contract c
FunctionOf(c) == functions[contract_functions(c)[1]]

\* the concrete contract c implements, with `override` (bare, or naming the
\* interface), the f() of an interface it inherits, and no other contract
\* it inherits declares f()
ImplementsInterface(c) ==
    /\ ty[c] = "contract"
    /\ Declares(c)
    /\ FunctionOf(c).has_body
    /\ FunctionOf(c).is_override # None
    /\ \E i \in TransitiveBases(c) :
           /\ is_interface(i)
           /\ Declares(i)
           /\ FunctionOf(i).is_virtual
           /\ FunctionOf(c).is_override[1] \subseteq {i}
           /\ \A b \in TransitiveBases(c) \ {i} : ~Declares(b)

\* C9: an interface declares the virtual function f and a concrete contract
\* that inherits it implements f, of the same parameter and return types,
\* with `override`: layout_contract of the concrete contract pushes no
\* diagnostic, and afterwards virtual_functions of that contract maps the
\* signature of f to the implementation of the concrete contract.
C9_InterfaceImplemented ==
    [][(pc = "layout_contract" /\ ImplementsInterface(cur)) =>
          /\ diagnostics' = diagnostics
          /\ "f()" \in DOMAIN virtual_functions'[cur]
          /\ virtual_functions'[cur]["f()"] = contract_functions(cur)[1]]_vars

C9_Witness ==
    /\ pc = "resolve_bodies"
    /\ ImplementsInterface(2)
    /\ is_interface(0)
    /\ Declares(0)
    /\ FunctionOf(2).is_override = Some({0})
    /\ virtual_functions[2]["f()"] = contract_functions(2)[1]

\* the bases of contract c are two contracts, neither a base of the other,
\* each declares the virtual function f(), and c declares f() with an
\* override list that names exactly one of the two
OverridesOneOfTwo(c) ==
    /\ Len(bases[c]) = 2
    /\ \A a, b \in BaseNos(c) : a \notin TransitiveBases(b)
    /\ \A a \in BaseNos(c) :
           Declares(a) /\ FunctionOf(a).is_virtual /\ FunctionOf(a).is_override = None
    /\ Declares(c)
    /\ \E a \in BaseNos(c) : FunctionOf(c).is_override = Some({a})

\* C10: two unrelated bases A and B of C each declare a virtual function of
\* one signature, with or without a body, A and B being contracts, abstract
\* contracts or interfaces, and C overrides it with an override list naming
\* only one of them: layout_contract(C) pushes exactly one diagnostic, it is
\* "function missing overrides", and the base it names is the omitted one.
C10_OneMissingOverride ==
    [][(pc = "layout_contract" /\ OverridesOneOfTwo(cur)) =>
          /\ Len(diagnostics') = Len(diagnostics) + 1
          /\ diagnostics'[Len(diagnostics')].kind = "function missing overrides"
          /\ diagnostics'[Len(diagnostics')].args[2]
                 = Sorted(BaseNos(cur) \ FunctionOf(cur).is_override[1])]_vars

\* the contracts whose f() contract c would override: the inherited
\* declarations that no other inherited contract overrides
Eligible(c) ==
    {a \in TransitiveBases(c) :
        /\ Declares(a)
        /\ ~\E b \in TransitiveBases(c) : a \in TransitiveBases(b) /\ Declares(b)}

\* C14: a function marked `override` with an empty override list, when
\* layout_contract visits it, has exactly one inherited declaration of its
\* signature that no other contract of the linearization overrides, or
\* layout_contract pushes an error diagnostic for that function; so a
\* diamond whose two middle contracts both override the root's function and
\* whose bottom contract writes a bare `override` is diagnosed.
C14_BareOverrideHasOneTarget ==
    [][(/\ pc = "layout_contract"
        /\ Declares(cur)
        /\ FunctionOf(cur).is_override = Some({})) =>
          \/ Cardinality(Eligible(cur)) = 1
          \/ \E i \in 1..(Len(diagnostics') - Len(diagnostics)) :
                 diagnostics'[Len(diagnostics) + i].loc.no = <<contract_functions(cur)[1]>>]_vars

\* the linearization of contract c, as a set
Linearized(c) == TransitiveBases(c) \cup {c}

\* the diagnostics the step adds
Added == SubSeq(diagnostics', Len(diagnostics) + 1, Len(diagnostics'))

\* every `override` of the linearization of c has a declaration to override
OverridesHaveAncestor(c) ==
    \A b \in Linearized(c) :
        (Declares(b) /\ FunctionOf(b).is_override # None) =>
            \E a \in TransitiveBases(b) : Declares(a)

\* C15: C is concrete, a contract of its linearization declares a virtual
\* function of signature s without a body, and no contract of the
\* linearization declares a function of signature s with a body:
\* layout_contract(C) reports a missing-override error for s.  (Stated for
\* hierarchies in which no function is marked `override` without an
\* inherited declaration of s.)
C15_UnimplementedIsReported ==
    [][(/\ pc = "layout_contract"
        /\ is_concrete(cur)
        /\ OverridesHaveAncestor(cur)
        /\ \E b \in Linearized(cur) : Declares(b) /\ FunctionOf(b).is_virtual
        /\ \A b \in Linearized(cur) : Declares(b) => ~FunctionOf(b).has_body) =>
          \E i \in 1..Len(Added) :
              Added[i].kind = "contract missing override for function"]_vars

\* C19: after the walk of layout_contract the function symbol recorded for
\* a name holds the functions of every contract of the linearization that
\* has a function symbol of that name.
C19_FunctionSymbolsAccumulate ==
    pc = "layout_contract" =>
        \A h \in HashOrders :
            \A b \in Linearized(cur) : \A name \in DOMAIN function_symbols(b) :
                /\ name \in DOMAIN layout_contract(cur, h).function_syms
                /\ Range(function_symbols(b)[name].nos)
                       \subseteq Range(layout_contract(cur, h).function_syms[name].nos)

-----------------------------------------------------------------------------
(* More claims about the storage layout (SpecLayout, SpecSymbols) *)

\* the position of contract b in the sequence ord
PositionIn(ord, b) == CHOOSE i \in 1..Len(ord) : ord[i] = b

\* the direct base at position i of contract c is a transitive base of no
\* base c declares after it
NotBelowLaterBase(c, i) ==
    \A k \in (i + 1)..Len(bases[c]) :
        bases[c][i].contract_no \notin TransitiveBases(bases[c][k].contract_no)

\* C18: C declares the direct bases B1..Bn in that order, i < j, and Bi is a
\* transitive base of no base declared after it: Bj precedes Bi in
\* visit_bases(C), and in C.layout every variable of Bj has a lower slot than
\* every variable of Bi.
C18_ReverseDeclarationOrder ==
    \A c \in Contracts : \A i, j \in 1..Len(bases[c]) :
        (i < j /\ NotBelowLaterBase(c, i)) =>
            /\ PositionIn(visit_bases(c), bases[c][j].contract_no)
                   < PositionIn(visit_bases(c), bases[c][i].contract_no)
            /\ \A x, y \in 1..Len(layout[c]) :
                   (/\ layout[c][x].contract_no = bases[c][j].contract_no
                    /\ layout[c][y].contract_no = bases[c][i].contract_no) =>
                       layout[c][x].slot < layout[c][y].slot

C18_Witness ==
    /\ pc = "resolve_bodies"
    /\ bases[2] = <<Base(0), Base(1)>>
    /\ bases[1] = <<>>
    /\ \E x, y \in 1..Len(layout[2]) :
           /\ layout[2][x].contract_no = 1
           /\ layout[2][y].contract_no = 0
           /\ layout[2][x].slot < layout[2][y].slot

\* the variables of contract b that are stored, in declaration order
StoredVariables(b) ==
    SelectSeq(DeclaredVariables(b), LAMBDA p : ~variables[p[1]][p[2]].constant)

\* the stored variables of the contracts of ord, contract after contract
RECURSIVE StoredAlong(_)
StoredAlong(ord) ==
    IF ord = <<>> THEN <<>> ELSE StoredVariables(Head(ord)) \o StoredAlong(Tail(ord))

\* C17: after one layout_contract(C) on a contract whose layout was empty,
\* C.layout holds exactly one entry for every non-constant variable of every
\* contract of visit_bases(C), private variables of bases included, and none
\* for a constant, in the order of the linearization and then of declaration.
C17_LayoutIsTheStoredVariables ==
    \A c \in Contracts :
        (pc \in {"layout_contract", "resolve_bodies"} /\ c < cur) =>
            LaidOutVariables(c) = StoredAlong(visit_bases(c))

\* contract 2 has been laid out over a base with a private stored variable
\* and a base with a constant
C17_Witness ==
    /\ pc = "resolve_bodies"
    /\ \E i \in 1..Len(layout[2]) :
           /\ layout[2][i].contract_no # 2
           /\ variables[layout[2][i].contract_no][layout[2][i].var_no].visibility = "private"
    /\ \E b \in TransitiveBases(2) : \E v \in 1..Len(variables[b]) : variables[b][v].constant
    /\ Len(layout[2]) >= 2

-----------------------------------------------------------------------------
(* Claims about check_base_args (SpecBaseArgs) *)

DeclaredConstructors(c) ==
    {k \in FunctionNos : functions[k].contract_no = c /\ functions[k].ty = "constructor"}

\* every constructor of z takes arguments
RequiresArguments(z) ==
    /\ DeclaredConstructors(z) # {}
    /\ \A k \in DeclaredConstructors(z) : functions[k].params # <<>>

\* a constructor of c carries a modifier-style call to z
ModifierSupplies(c, z) == \E k \in DeclaredConstructors(c) : z \in DOMAIN functions[k].bases

\* the base list of c carries arguments for z
BaseListSupplies(c, z) ==
    \E i \in 1..Len(bases[c]) :
        bases[c][i].contract_no = z /\ bases[c][i].constructor # None

\* the diagnostics the step adds about the arguments of base z
MissingAdded(z) ==
    {i \in 1..Len(Added) :
        /\ Added[i].kind = "missing arguments to base contract constructor"
        /\ Added[i].args = << <<z>> >>}

DuplicateAdded(z) ==
    {i \in 1..Len(Added) :
        /\ Added[i].kind = "duplicate argument for base contract"
        /\ Added[i].args = << <<z>> >>}

\* C11, for a hierarchy in which nothing supplies the arguments of Z: C is
\* concrete, the constructor of its linearized base Z requires arguments,
\* and no constructor and no base list of the linearization of C supplies
\* them: check_base_args(C) adds exactly one missing-arguments diagnostic
\* for Z, however many constructors C declares.
C11_OneMissingWhenNoneSupplied ==
    [][pc = "check_base_args" =>
          \A z \in TransitiveBases(cur) :
              (/\ is_concrete(cur)
               /\ RequiresArguments(z)
               /\ \A b \in Linearized(cur) :
                      ~ModifierSupplies(b, z) /\ ~BaseListSupplies(b, z)) =>
                  Cardinality(MissingAdded(z)) = 1]_vars

\* contract 2 is concrete and declares two constructors, contract 0 is a
\* base of it whose constructor requires arguments that nothing supplies,
\* and the checks have reported it once for contract 2
C11_Witness ==
    /\ pc = "done"
    /\ is_concrete(2)
    /\ Cardinality(DeclaredConstructors(2)) = 2
    /\ 0 \in TransitiveBases(2)
    /\ RequiresArguments(0)
    /\ \A b \in Contracts : ~ModifierSupplies(b, 0) /\ ~BaseListSupplies(b, 0)
    /\ Cardinality({i \in 1..Len(diagnostics) :
                       /\ diagnostics[i].kind = "missing arguments to base contract constructor"
                       /\ diagnostics[i].loc = Loc("contract", <<2>>)
                       /\ diagnostics[i].args = << <<0>> >>}) = 1

\* C11, as stated: C is concrete, the constructor of its linearized base Z
\* requires arguments, no constructor of C supplies them by a modifier-style
\* call and no base list supplies them: check_base_args(C) adds exactly one
\* missing-arguments diagnostic for Z.
C11_OneMissingPerBase ==
    [][pc = "check_base_args" =>
          \A z \in TransitiveBases(cur) :
              (/\ is_concrete(cur)
               /\ RequiresArguments(z)
               /\ ~ModifierSupplies(cur, z)
               /\ \A b \in Linearized(cur) : ~BaseListSupplies(b, z)) =>
                  Cardinality(MissingAdded(z)) = 1]_vars

\* C12, for a base whose arguments nothing else supplies: C is concrete,
\* its single constructor supplies the arguments of the direct base Z by a
\* modifier-style call, the base list of C supplies them too, and no base of
\* C supplies them: check_base_args(C) adds exactly one duplicate-argument
\* diagnostic and no missing-arguments diagnostic for Z.
C12_OneDuplicateForTwoSupplies ==
    [][pc = "check_base_args" =>
          \A z \in BaseNos(cur) :
              (/\ is_concrete(cur)
               /\ Cardinality(DeclaredConstructors(cur)) = 1
               /\ ModifierSupplies(cur, z)
               /\ BaseListSupplies(cur, z)
               /\ \A b \in TransitiveBases(cur) :
                      ~ModifierSupplies(b, z) /\ ~BaseListSupplies(b, z)) =>
                  /\ Cardinality(DuplicateAdded(z)) = 1
                  /\ MissingAdded(z) = {}]_vars

\* the single constructor of the concrete contract 1 and its base list both
\* supply the arguments of its base 0, whose constructor requires them, and
\* the check of contract 1 has reported exactly the duplicate
C12_Witness ==
    /\ pc = "check_base_args"
    /\ cur = 2
    /\ is_concrete(1)
    /\ Cardinality(DeclaredConstructors(1)) = 1
    /\ RequiresArguments(0)
    /\ ModifierSupplies(1, 0)
    /\ BaseListSupplies(1, 0)
    /\ Len(diagnostics) = 1
    /\ diagnostics[1].kind = "duplicate argument for base contract"
    /\ diagnostics[1].args = << <<0>> >>

\* C12, as stated: C is concrete and its single constructor supplies the
\* arguments of the direct base Z both by a modifier-style call and by the
\* base list: check_base_args(C) adds exactly one duplicate-argument
\* diagnostic and no missing-arguments diagnostic for Z.
C12_OneDuplicate ==
    [][pc = "check_base_args" =>
          \A z \in BaseNos(cur) :
              (/\ is_concrete(cur)
               /\ Cardinality(DeclaredConstructors(cur)) = 1
               /\ ModifierSupplies(cur, z)
               /\ BaseListSupplies(cur, z)) =>
                  /\ Cardinality(DuplicateAdded(z)) = 1
                  /\ MissingAdded(z) = {}]_vars

\* the constructor of base b that the base list of c selects, or None
SelectedByBaseList(c, b) ==
    LET at == {i \in 1..Len(bases[c]) : bases[c][i].contract_no = b}
    IN  IF at = {} THEN None ELSE bases[c][CHOOSE i \in at : TRUE].constructor

\* the bases that receive an argument list along the chain of constructors
\* invoked from the constructor k of c (None: c declares no constructor):
\* the modifier-style calls of k, the arguments of the base list of c, the
\* chains of the constructors those select, and the chain of the
\* no-argument constructor of a direct base for which none is selected
RECURSIVE SuppliedAlong(_, _)
SuppliedAlong(c, k) ==
    LET called == IF k = None THEN {} ELSE DOMAIN functions[k[1]].bases
        listed == {b \in BaseNos(c) : SelectedByBaseList(c, b) # None}
    IN  called \cup listed
            \cup UNION {SuppliedAlong(b, Some(functions[k[1]].bases[b])) : b \in called}
            \cup UNION {SuppliedAlong(b, SelectedByBaseList(c, b)) : b \in listed \ called}
            \cup UNION {SuppliedAlong(b, no_args_constructor(b)) :
                           b \in BaseNos(c) \ (called \cup listed)}

\* the constructors check_base_args walks from: the declared ones, or the
\* implicit one
Walks(c) ==
    IF DeclaredConstructors(c) = {} THEN {None}
    ELSE {Some(k) : k \in DeclaredConstructors(c)}

\* C13: C is concrete, K is a constructor of C (or the implicit one), the
\* constructor of the linearized base Z requires arguments, and no argument
\* list for Z is supplied along the chain of constructors invoked from K:
\* check_base_args(C) reports missing arguments for Z.
C13_OmissionsReported ==
    [][(pc = "check_base_args" /\ is_concrete(cur)) =>
          \A k \in Walks(cur), z \in TransitiveBases(cur) :
              (RequiresArguments(z) /\ z \notin SuppliedAlong(cur, k)) =>
                  MissingAdded(z) # {}]_vars

-----------------------------------------------------------------------------
(* Claims about the order of resolve (SpecConstructors) *)

\* C16: check_base_args runs only after the layout loop has ended and every
\* body has been attempted, and only when no body failed; at the end of
\* resolve it has run once for every contract if no body failed and for no
\* contract if one failed, and every body has been attempted.
C16_ChecksIffBodiesResolved ==
    /\ [](pc = "check_base_args" => (~broken /\ body_no = Len(function_bodies)))
    /\ [](pc = "done" =>
             /\ body_no = Len(function_bodies)
             /\ cur = IF broken THEN 0 ELSE Cardinality(Contracts))
    /\ [][/\ pc' = "resolve_bodies" => pc \in {"layout_contract", "resolve_bodies"}
          /\ (pc = "layout_contract" /\ pc' # pc) =>
                 (cur = Cardinality(Contracts) - 1 /\ pc' = "resolve_bodies")
          /\ pc' = "check_base_args" => pc \in {"resolve_bodies", "check_base_args"}
          /\ pc = "check_base_args" => cur' = cur + 1
          /\ (pc = "resolve_bodies" /\ body_no < Len(function_bodies)) =>
                 (pc' = pc /\ body_no' = body_no + 1)]_vars

\* resolve has ended, two bodies were attempted, one of them failed, and
\* check_base_args ran for no contract although the file holds a concrete
\* contract whose base requires constructor arguments that nothing supplies
C16_Witness ==
    /\ pc = "done"
    /\ broken
    /\ body_no = 2
    /\ cur = 0
    /\ diagnostics = <<>>
    /\ is_concrete(1)
    /\ bases[1] = <<Base(0)>>
    /\ RequiresArguments(0)
    /\ ~ModifierSupplies(1, 0)

-----------------------------------------------------------------------------
(* Claims about the symbol merge (SpecSymbols) *)

IsPrivate(nos) == variables[nos[1]][nos[2]].visibility = "private"

AlreadyDefined == {i \in 1..Len(diagnostics) : diagnostics[i].kind = "already defined"}

\* C20, as the code has it: a private variable is never recorded in the
\* merge, so it is never the previous definition an "already defined"
\* diagnostic points at.  (A private variable declared under a name a base
\* has recorded is still reported itself.)
C20_PrivateNeverPrevious ==
    \A i \in AlreadyDefined : ~IsPrivate(diagnostics[i].notes[1].pos.no)

\* contract 1 redeclares, not privately, the private x of its base 0, and no
\* diagnostic has been pushed
C20_Witness ==
    /\ pc = "resolve_bodies"
    /\ bases[1] = <<Base(0)>>
    /\ \E v \in 1..Len(variables[0]), w \in 1..Len(variables[1]) :
           /\ variables[0][v].name = variables[1][w].name
           /\ variables[0][v].visibility = "private"
           /\ variables[1][w].visibility = "internal"
    /\ diagnostics = <<>>

\* C20, as stated: a private variable never takes part in the symbol merge:
\* no "already defined" diagnostic has a private variable as its previous
\* definition, and none is reported for a private variable.
C20_PrivateNeverInMerge ==
    \A i \in AlreadyDefined :
        /\ ~IsPrivate(diagnostics[i].notes[1].pos.no)
        /\ ~IsPrivate(diagnostics[i].args[1])

-----------------------------------------------------------------------------
(* Claims about the override checks of layout_contract (SpecOverride) *)

\* the contracts inherited by c that declare f()
Declarers(c) == {a \in TransitiveBases(c) : Declares(a)}

\* the contracts that own a pending entry for f() when layout_contract(c)
\* reaches the f() of c, where the declarations make that plain: a single
\* inherited declaration, without a body, is pending alone; two inherited
\* definitions with a body and without `override` are pending together
PendingKnown(c) ==
    \/ /\ Cardinality(Declarers(c)) = 1
       /\ \A a \in Declarers(c) :
              ~FunctionOf(a).has_body /\ FunctionOf(a).is_override = None
    \/ /\ Cardinality(Declarers(c)) = 2
       /\ \A a \in Declarers(c) :
              FunctionOf(a).has_body /\ FunctionOf(a).is_override = None

\* the diagnostics of one kind the step adds
AddedOfKind(kind) == {i \in 1..Len(Added) : Added[i].kind = kind}

\* C21: the f() of C carries a non-empty override list and f() is pending
\* when it is visited: layout_contract(C) reports as missing overrides the
\* contracts that own a pending entry and are not listed, and as extraneous
\* overrides the listed contracts that own none, for one pending entry as
\* for two.
C21_ListComparedWithPending ==
    [][(/\ pc = "layout_contract"
        /\ Declares(cur)
        /\ FunctionOf(cur).is_override # None
        /\ FunctionOf(cur).is_override # Some({})
        /\ PendingKnown(cur)) =>
          LET specified == FunctionOf(cur).is_override[1]
              missing == Declarers(cur) \ specified
              extra == specified \ Declarers(cur)
          IN  /\ missing # {} =>
                     \E i \in AddedOfKind("function missing overrides") :
                         Added[i].args[2] = Sorted(missing)
              /\ extra # {} =>
                     \E i \in AddedOfKind("function includes extraneous overrides") :
                         Added[i].args[2] = Sorted(extra)]_vars

\* the diagnostics of the pass over what is still pending after the walk
EndOfWalkKinds ==
    {"contract missing override for function",
     "contract missing override for fallback function",
     "contract missing override for receive function",
     "function with this signature already defined"}

\* C22: the f() of C, the last function of the walk, is visited while f()
\* is pending: the pending entry is removed by that visit, so the pass after
\* the walk finds nothing pending and reports nothing.
C22_PendingRemovedByVisit ==
    [][(pc = "layout_contract" /\ Declares(cur) /\ PendingKnown(cur)) =>
          \A i \in 1..Len(Added) : Added[i].kind \notin EndOfWalkKinds]_vars

\* the functions declared in the contracts of the linearization of c
LinearizedFunctions(c) == {f \in FunctionNos : functions[f].contract_no \in Linearized(c)}

\* the step rejects function f as overriding nothing
RejectedAsOverridingNothing(f) ==
    \E i \in AddedOfKind("function does not override anything") : Added[i].args[1] = <<f>>

\* the position of contract b in the linearization of c
RECURSIVE IndexOf(_, _, _)
IndexOf(seq, x, i) == IF seq[i] = x THEN i ELSE IndexOf(seq, x, i + 1)

\* C23: after layout_contract(C) every function declared in a contract of
\* visit_bases(C), except one rejected as overriding nothing, is a key of
\* C.all_functions with the sentinel value, and C.virtual_functions holds,
\* for f(), the last of those functions in linearization order that is
\* virtual or marked `override`, declarations without a body included.
C23_EveryFunctionRecorded ==
    [][pc = "layout_contract" =>
          LET kept == {f \in LinearizedFunctions(cur) : ~RejectedAsOverridingNothing(f)}
              winners == {f \in kept :
                             functions[f].is_virtual \/ functions[f].is_override # None}
              at(f) == IndexOf(visit_bases(cur), functions[f].contract_no, 1)
          IN  /\ \A f \in kept :
                     /\ f \in DOMAIN all_functions'[cur]
                     /\ all_functions'[cur][f] = "usize::MAX"
              /\ winners # {} =>
                     /\ "f()" \in DOMAIN virtual_functions'[cur]
                     /\ \A f \in winners : at(f) <= at(virtual_functions'[cur]["f()"])]_vars

\* the f() of c is compared against one recorded definition: a single
\* inherited contract declares f(), with a body, not virtual and without
\* `override`, and c declares f() too
ReplacesNonVirtual(c) ==
    /\ Declares(c)
    /\ Cardinality(Declarers(c)) = 1
    /\ \A a \in Declarers(c) :
           /\ FunctionOf(a).has_body
           /\ ~FunctionOf(a).is_virtual
           /\ FunctionOf(a).is_override = None

\* C25: the f() of C is compared against the f() of an inherited contract,
\* of the same kind and types, which is not virtual: layout_contract(C)
\* reports an error, whether or not the f() of C has a body or is marked
\* `override`; the function that is not virtual is never replaced without
\* a diagnostic.
C25_NonVirtualNeverReplacedSilently ==
    [][(pc = "layout_contract" /\ ReplacesNonVirtual(cur)) =>
          \E i \in 1..Len(Added) : Added[i].level = "error"]_vars

\* the diagnostics pushed against a function visited while its signature is
\* pending (lines 426-520)
PendingKinds ==
    {"function should specify override",
     "function overrides functions which are not virtual",
     "function should specify override list",
     "function missing overrides",
     "function includes extraneous overrides"}

\* C29: layout_contract reports an override diagnostic against a function f
\* with respect to a pending function only if the contract of f inherits,
\* directly or not, a contract that declares the signature of f.
C29_OverrideFollowsInheritance ==
    [][pc = "layout_contract" =>
          \A i \in 1..Len(Added) :
              Added[i].kind \in PendingKinds =>
                  LET f == Added[i].args[1][1]
                  IN  \E g \in FunctionNos :
                          /\ functions[g].signature = functions[f].signature
                          /\ functions[g].contract_no
                                 \in TransitiveBases(functions[f].contract_no)]_vars

\* C28: the set of error diagnostics layout_contract(C) adds is the same
\* for every iteration order of the hash maps it walks.
C28_ErrorsIndependentOfOrder ==
    [][pc = "layout_contract" =>
          \A h \in HashOrders :
              Range(layout_contract(cur, h).diags) = Range(Added)]_vars

-----------------------------------------------------------------------------
(* SpecReturns: the layout loop for a contract and its base, each declaring *)
(* f() with a list of return types.                                         *)

ReturnLists == {<<>>, <<"uint64">>, <<"bool">>, <<"uint64", "bool">>}

\* the declarations of f() in contract c, with every list of return types
ReturnFunctionSeqs(c) ==
    {<<[fn[1] EXCEPT !.returns = r]>> : fn \in FunctionSeqs(c) \ {<<>>}, r \in ReturnLists}

InitReturns ==
    /\ ty \in [0..1 -> {"contract", "abstract contract"}]
    /\ InitNamespace(2)
    /\ bases = [c \in 0..1 |-> IF c = 0 THEN <<>> ELSE <<Base(0)>>]
    /\ target = "Substrate"
    /\ variables = [c \in 0..1 |-> <<>>]
    /\ \E f0 \in ReturnFunctionSeqs(0), f1 \in ReturnFunctionSeqs(1) :
           functions = f0 \o f1
    /\ pc = "layout_contract"

NextReturns == LayoutContract

SpecReturns == InitReturns /\ [][NextReturns]_vars

-----------------------------------------------------------------------------
(* Claims about the types of an overriding function (SpecReturns) *)

\* C24: the f() of C takes the place of the f() of its base, a function of
\* the same kind, and the two lists of return types differ, in an element
\* or in length: layout_contract(C) reports that the return types differ,
\* whether the f() of the base is pending, having no body, or recorded.
C24_ReturnTypesCompared ==
    [][(/\ pc = "layout_contract"
        /\ cur = 1
        /\ FunctionOf(0).is_override = None
        /\ FunctionOf(1).returns # FunctionOf(0).returns) =>
          AddedOfKind("overrides with different return types") # {}]_vars

-----------------------------------------------------------------------------
(* Claims about duplicate base arguments (SpecBaseArgs) *)

\* the places in the linearization of c that supply arguments for base z:
\* the base-list entries and the modifier-style calls
SupplySites(c, z) ==
    {<<"base", b>> : b \in {x \in Linearized(c) : BaseListSupplies(x, z)}}
        \cup {<<"modifier", k>> :
                 k \in {x \in FunctionNos :
                           /\ functions[x].contract_no \in Linearized(c)
                           /\ functions[x].ty = "constructor"
                           /\ z \in DOMAIN functions[x].bases}}

\* C27: check_base_args(C) reports a duplicate argument for a base Z only
\* if the arguments of Z are supplied at two or more places of the
\* linearization of C; one place alone never yields the diagnostic, however
\* often the contract that holds it is walked.
C27_DuplicateNeedsTwoSites ==
    [][pc = "check_base_args" =>
          \A z \in Contracts :
              DuplicateAdded(z) # {} => Cardinality(SupplySites(cur, z)) >= 2]_vars

-----------------------------------------------------------------------------
(* resolve_base_args (SpecResolveArgs): the declarations of SpecResolve,    *)
(* each with or without an argument list, and then resolve_base_args.  An   *)
(* argument list is a number: 0 is a list no constructor of the base        *)
(* matches, k > 0 a list that matches the constructor k of the base alone.  *)

MaxArgs == 2

ArgLists == {None} \cup {Some(a) : a \in 0..MaxArgs}

\* match_constructor_to_args(loc, args, ..): the constructor matched, if
\* any, and what it reports
match_constructor_to_args(loc, args) ==
    IF args = 0
    THEN [matched |-> None,
          diag |-> <<Error(loc, "cannot find overloaded constructor which matches signature",
                           <<>>, <<>>)>>]
    ELSE [matched |-> Some(args), diag |-> <<>>]

\* ns.contracts[contract_no].bases.iter().position(|e| e.contract_no == base_no)
position(bs, base_no) ==
    LET found == {i \in 1..Len(bs) : bs[i].contract_no = base_no}
    IN  IF found = {} THEN None
        ELSE Some(CHOOSE i \in found : \A j \in found : i <= j)

\* The body of the loops of resolve_base_args for the declaration i, on the
\* bases bs and the local diagnostics ds
resolve_base_arg(st, i) ==
    LET d == decls[i]
        found == resolve_contract(d.name)
        pos == position(st.bases[d.contract_no], found[1])
        m == match_constructor_to_args(Loc("base", <<i>>), d.args[1])
    IN  IF found = None THEN st
        ELSE IF pos = None THEN st
        ELSE IF d.args = None THEN st
        ELSE IF m.matched = None
        THEN [st EXCEPT !.diag = @ \o m.diag]
        ELSE [st EXCEPT !.bases[d.contract_no][pos[1]].constructor = m.matched]

\* for (contract_no, def) in contracts { for base in &def.base { .. } }
RECURSIVE resolve_base_args(_, _)
resolve_base_args(st, i) ==
    IF i > Len(decls) THEN st
    ELSE resolve_base_args(resolve_base_arg(st, i), i + 1)

ResolveBaseArgs ==
    /\ pc = "resolved"
    /\ \E st \in {resolve_base_args([bases |-> bases, diag |-> <<>>], 1)} :
           /\ bases' = st.bases
           /\ diagnostics' = diagnostics \o st.diag
    /\ pc' = "base_args_resolved"
    /\ UNCHANGED <<decls, cur, order, declared, laid_out, bodies, call>>

InitResolveArgs ==
    /\ ty = [c \in 0..(ResolveContracts - 1) |-> "contract"]
    /\ InitNamespace(ResolveContracts)
    /\ NoBases(ResolveContracts)
    /\ NoDeclarations(ResolveContracts)
    /\ target = "Substrate"
    /\ pc = "resolve_base_contracts"

NextResolveArgs ==
    \/ \E name \in Names, args \in ArgLists : ResolveBaseDeclaration(name, args)
    \/ NextContract
    \/ ResolveBaseArgs

SpecResolveArgs == InitResolveArgs /\ [][NextResolveArgs]_vars

\* the declaration that created the entry p of the bases of contract c: the
\* first declaration of c that names it (a later one is a duplicate)
CreatingDeclaration(c, p) ==
    LET named == {i \in 1..Len(decls) :
                     /\ decls[i].contract_no = c
                     /\ decls[i].name = bases[c][p].contract_no}
    IN  decls[CHOOSE i \in named : \A j \in named : i <= j]

\* C26: after resolve_base_args a Base has a constructor only if the
\* declaration that created the Base carried an argument list, and the list
\* matches that constructor; a declaration without arguments, a failed match
\* and a declaration resolve_base_contracts rejected leave every Base as it
\* was.
C26_ConstructorFromCreatingDeclaration ==
    pc = "base_args_resolved" =>
        \A c \in Contracts : \A p \in 1..Len(bases[c]) :
            bases[c][p].constructor # None =>
                LET d == CreatingDeclaration(c, p)
                IN  /\ d.args # None
                    /\ d.args[1] # 0
                    /\ bases[c][p].constructor = Some(d.args[1])

-----------------------------------------------------------------------------
(* The recursive functions, one call or return at a time (SpecTermination). *)
(* call.stack holds the frames of the function that is running, the         *)
(* innermost last; a frame is the contract of the call and the position of  *)
(* its loop.  The graph is the one resolve_base_contracts has produced.     *)

\* the number of frames the stack of the process holds; a call that needs
\* one more overflows the stack and never returns
MaxDepth == 6

Top == call.stack[Len(call.stack)]
Pop(stack) == SubSeq(stack, 1, Len(stack) - 1)
SetTop(stack, frame) == [stack EXCEPT ![Len(stack)] = frame]

\* resolve_base_contracts has returned; a later phase calls is_base
CallIsBase(base, parent) ==
    /\ pc = "resolved"
    /\ call' = [stack |-> <<[parent |-> parent, i |-> 0]>>, base |-> base, ret |-> None]
    /\ pc' = "is_base"
    /\ UNCHANGED <<bases, decls, diagnostics, cur, order, declared, laid_out, bodies>>

\* is_base, lines 297-307: the test of line 300 (i = 0), then the calls of
\* `bases.iter().any(|parent| is_base(..))`, which stops at the first true
IsBaseStep ==
    /\ pc = "is_base"
    /\ call.stack # <<>>
    /\ LET parent == Top.parent
           bs == bases[parent]
       IN  call' =
             IF call.ret # None
             THEN IF call.ret[1]
                  THEN [call EXCEPT !.stack = Pop(@)]
                  ELSE [call EXCEPT !.stack = SetTop(@, [Top EXCEPT !.i = @ + 1]),
                                    !.ret = None]
             ELSE IF Top.i = 0
             THEN IF call.base = parent
                     \/ \E k \in 1..Len(bs) : bs[k].contract_no = call.base
                  THEN [call EXCEPT !.stack = Pop(@), !.ret = Some(TRUE)]
                  ELSE [call EXCEPT !.stack = SetTop(@, [Top EXCEPT !.i = 1])]
             ELSE IF Top.i > Len(bs)
             THEN [call EXCEPT !.stack = Pop(@), !.ret = Some(FALSE)]
             ELSE [call EXCEPT !.stack =
                      Append(@, [parent |-> bs[Top.i].contract_no, i |-> 0])]
    /\ Len(call'.stack) <= MaxDepth
    /\ UNCHANGED <<bases, decls, diagnostics, pc, cur, order, declared, laid_out, bodies>>

\* the outermost call of is_base returns
IsBaseReturn ==
    /\ pc = "is_base"
    /\ call.stack = <<>>
    /\ pc' = "returned"
    /\ UNCHANGED <<bases, decls, diagnostics, cur, order, declared, laid_out, bodies, call>>

\* visit_bases, lines 278-281 and 291
CallVisitBases(contract_no) ==
    /\ pc = "resolved"
    /\ order' = <<>>
    /\ call' = [stack |-> <<[contract_no |-> contract_no,
                             i |-> Len(bases[contract_no])]>>]
    /\ pc' = "base"
    /\ UNCHANGED <<bases, decls, diagnostics, cur, declared, laid_out, bodies>>

\* the inner fn base, lines 281-289: the next base of `bases.iter().rev()`
\* is visited, or the contract is pushed and the call returns
BaseStep ==
    /\ pc = "base"
    /\ call.stack # <<>>
    /\ LET contract_no == Top.contract_no
           bs == bases[contract_no]
       IN  IF Top.i > 0
           THEN /\ call' = [call EXCEPT !.stack =
                              Append(SetTop(@, [Top EXCEPT !.i = @ - 1]),
                                     [contract_no |-> bs[Top.i].contract_no,
                                      i |-> Len(bases[bs[Top.i].contract_no])])]
                /\ order' = order
           ELSE /\ call' = [call EXCEPT !.stack = Pop(@)]
                /\ order' = IF contract_no \in Range(order) THEN order
                            ELSE Append(order, contract_no)
    /\ Len(call'.stack) <= MaxDepth
    /\ UNCHANGED <<bases, decls, diagnostics, pc, cur, declared, laid_out, bodies>>

\* visit_bases returns `order`, line 293
VisitBasesReturn ==
    /\ pc = "base"
    /\ call.stack = <<>>
    /\ pc' = "returned"
    /\ UNCHANGED <<bases, decls, diagnostics, cur, order, declared, laid_out, bodies, call>>

\* SpecTermination: the number of constructors declared in all
TerminationConstructors == 2

\* resolve, lines 113-122: the declarations and resolve_base_args, for
\* contracts that declare constructors only.  Every constructor carries
\* modifier-style calls to constructors of bases, and a Base carries None or
\* a constructor of its contract.
ResolveDeclarations ==
    /\ pc = "resolved"
    /\ \E p \in {q \in [Contracts -> ConstructorLists] :
                    ConstructorsBefore(q, Cardinality(Contracts)) <= TerminationConstructors} :
           /\ functions' \in ConstructorSeqs(p, Cardinality(Contracts) - 1)
           /\ \E sel \in [Contracts -> UNION {BaseLists(p, BaseContractSeq(c)) :
                                                 c \in Contracts}] :
                  /\ \A c \in Contracts : sel[c] \in BaseLists(p, BaseContractSeq(c))
                  /\ bases' = sel
    /\ pc' = "declared"
    /\ UNCHANGED <<ty, target, variables, decls, diagnostics, cur, order, laid_out,
                   bodies, call>>

\* the orders in which the HashMap constructor.bases is iterated
ModifierOrders(constructor_no) ==
    IF constructor_no = None THEN {<<>>}
    ELSE Perms(DOMAIN functions[constructor_no[1]].bases)

\* a call of collect_base_args at its entry
Frame(contract_no, constructor_no, keys) ==
    [contract_no |-> contract_no, constructor_no |-> constructor_no,
     keys |-> keys, m |-> 1, i |-> 1]

\* check_base_args, lines 990-1021: collect_base_args is called for a
\* constructor of the contract, or for None
CallCollectBaseArgs(contract_no, constructor_no) ==
    /\ pc = "declared"
    /\ constructor_no # None => functions[constructor_no[1]].contract_no = contract_no
    /\ \E keys \in ModifierOrders(constructor_no) :
           call' = [stack |-> <<Frame(contract_no, constructor_no, keys)>>,
                    acc |-> [base_args |-> EmptyMap, diagnostics |-> {}]]
    /\ pc' = "collect_base_args"
    /\ UNCHANGED <<bases, decls, diagnostics, cur, order, declared, laid_out, bodies>>

\* collect_base_args, lines 886-972: the next modifier-style call of the
\* constructor (lines 898-925), then the next base of the base list (lines
\* 928-971), then the return
CollectBaseArgsStep ==
    /\ pc = "collect_base_args"
    /\ call.stack # <<>>
    /\ LET f == Top
           in_modifiers == f.m <= Len(f.keys)
           in_bases == f.i <= Len(bases[f.contract_no])
           advanced == SetTop(call.stack, IF in_modifiers THEN [f EXCEPT !.m = @ + 1]
                                          ELSE [f EXCEPT !.i = @ + 1])
           defined_constructor_no == f.constructor_no[1]
           base == bases[f.contract_no][f.i]
           base_no == IF in_modifiers THEN f.keys[f.m] ELSE base.contract_no
           loc == IF in_modifiers THEN ModifierLoc(defined_constructor_no, base_no)
                  ELSE BaseLoc(f.contract_no, base_no)
           constructor_no ==
               IF in_modifiers THEN Some(functions[defined_constructor_no].bases[base_no])
               ELSE base.constructor
           duplicate ==
               call' = [call EXCEPT !.stack = advanced,
                                    !.acc.diagnostics =
                                        @ \cup {DuplicateArgument(loc, base_no,
                                                                  call.acc.base_args[base_no])}]
           insert ==
               \E keys \in ModifierOrders(constructor_no) :
                   call' = [call EXCEPT
                              !.stack = Append(advanced, Frame(base_no, constructor_no, keys)),
                              !.acc.base_args =
                                  MapPut(@, base_no,
                                         BaseOrModifier(loc,
                                             IF in_modifiers THEN Some(defined_constructor_no)
                                             ELSE None,
                                             constructor_no[1]))]
           descend ==
               \E keys \in ModifierOrders(no_args_constructor(base_no)) :
                   call' = [call EXCEPT
                              !.stack = Append(advanced,
                                               Frame(base_no, no_args_constructor(base_no),
                                                     keys))]
       IN  IF in_modifiers \/ (in_bases /\ base.constructor # None)
           THEN IF base_no \in DOMAIN call.acc.base_args THEN duplicate ELSE insert
           ELSE IF in_bases
           THEN descend
           ELSE call' = [call EXCEPT !.stack = Pop(@)]
    /\ Len(call'.stack) <= MaxDepth
    /\ UNCHANGED <<bases, decls, diagnostics, pc, cur, order, declared, laid_out, bodies>>

\* the outermost call of collect_base_args returns
CollectBaseArgsReturn ==
    /\ pc = "collect_base_args"
    /\ call.stack = <<>>
    /\ pc' = "returned"
    /\ UNCHANGED <<bases, decls, diagnostics, cur, order, declared, laid_out, bodies, call>>

NextTermination ==
    \/ \E name \in Names : ResolveBase(name)
    \/ NextContract
    \/ ResolveDeclarations
    \/ \E base, parent \in Contracts : CallIsBase(base, parent)
    \/ IsBaseStep
    \/ IsBaseReturn
    \/ \E c \in Contracts : CallVisitBases(c)
    \/ BaseStep
    \/ VisitBasesReturn
    \/ \E c \in Contracts, k \in {None} \cup {Some(n) : n \in FunctionNos} :
           CallCollectBaseArgs(c, k)
    \/ CollectBaseArgsStep
    \/ CollectBaseArgsReturn

\* Every step is a step of one sequential program, which takes its next
\* step whenever it has one.
SpecTermination ==
    InitResolveArgs /\ [][NextTermination]_vars /\ WF_vars(NextTermination)

\* C30: for every list of declarations, self-inheritance and cyclic
\* declarations among them, resolve_base_contracts returns, and on the graph
\* it has produced a call of is_base, of visit_bases and of
\* collect_base_args returns.
C30_EveryCallReturns == <>(pc = "returned")

\* resolve_base_contracts rejected a declaration of the contract itself and
\* a declaration that closes a cycle, and on the graph it produced
\* collect_base_args has walked down to a base with arguments and returned
C30_Witness ==
    /\ pc = "returned"
    /\ HasDiagnostic("base is cyclic")
    /\ HasDiagnostic("contract cannot have itself as a base contract")
    /\ "acc" \in DOMAIN call
    /\ DOMAIN call.acc.base_args # {}

====
